---- MODULE Spec2Model ----
(***************************************************************************)
(* The filter operator of the query pipeline                               *)
(* (rust/worker/src/execution/operators/filter.rs): the log view built     *)
(* from the materialized log, the two metadata providers, the recursive    *)
(* evaluation of a Where clause into a signed bitmap, and                  *)
(* FilterOperator::run, which combines the log side and the segment side.  *)
(* With it, the collection configuration                                   *)
(* (rust/types/src/collection_configuration.rs): the internal              *)
(* configuration built from the configuration a caller supplies.           *)
(***************************************************************************)
EXTENDS Integers, Sequences, FiniteSets, TLC

VARIABLES
    segment,        \* the committed segment: [initialized, recs, readers, creation_error,
                    \* read_error, metadata_error],
                    \* recs: offset id -> record
    logs,           \* the materialized log: one entry per offset id, in offset order
    query_ids,      \* FilterOperator.query_ids: {} (None) or {<<id, ...>>} (Some)
    where_clause,   \* FilterOperator.where_clause: {} (None) or {w} (Some)
    pc,             \* "ready" before FilterOperator::run, "done" after it
    user_allowed,   \* run's whitelist masks: None, or Some([log, compact])
    where_evals,    \* run's two evaluations of the clause: [log, compact], each an Option
    output,         \* the Result of FilterOperator::run
    configuration,  \* the arguments of try_from_config: [value, default_knn_index, metadata]
    internal_configuration, \* None, or Some(the Result of try_from_config), or Some(Ok) of
                    \* a configuration as stored
    legacy_fallback,   \* None, or Some([self, segment, result]) of the last call of
                    \* get_hnsw_config_with_legacy_fallback
    applied_update, \* None, or Some([configuration, before, times]) of the last call of update
    invocations     \* the concurrent invocations of run over segment and logs: a sequence
                    \* of [query_ids, where_clause, pc, log_view, user_allowed,
                    \* log_offset_ids, output]

vars == <<segment, logs, query_ids, where_clause, pc, user_allowed, where_evals, output,
          configuration, internal_configuration, legacy_fallback, applied_update,
          invocations>>

----------------------------------------------------------------------------
(* Bounds of the model. *)

\* Offset ids are 0..MaxOffset.
MaxOffset == 1
\* query_ids holds at most MaxQueryIds user ids.
MaxQueryIds == 1
\* A Set comparison holds at most MaxSetLen values.
MaxSetLen == 2
\* A Composite holds at most MaxChildren children.
MaxChildren == 2
\* At most MaxInvocations invocations of run are in flight together.
MaxInvocations == 2
\* A segment of the regex runs holds at most MaxRecords records.
MaxRecords == 21
\* The same update is applied to a configuration at most MaxUpdates times.
MaxUpdates == 2

Offsets == 0..MaxOffset

\* Option<T>: None is {}, Some(x) is {x}.
None == {}
Some(x) == {x}
is_some(opt) == opt # {}
unwrap(opt) == CHOOSE x \in opt : TRUE
unwrap_or(opt, default) == IF is_some(opt) THEN unwrap(opt) ELSE default

\* Result<T, FilterError>
Ok(x) == [ok |-> TRUE, val |-> x]
Err(e) == [ok |-> FALSE, err |-> e]

\* FilterError::code, taking the code of the wrapped error for Regex too.
FilterError_code_of_source(e) == "CodeOfSource"

\* FilterError::code: InvalidArgument for Regex, the code of the wrapped error
\* for every other variant.
FilterError_code(e) == IF e = "Regex" THEN "InvalidArgument" ELSE "CodeOfSource"

----------------------------------------------------------------------------
(* Metadata values: a tagged union. String payloads are numbered. *)

\* false < true
BoolV(b) == [t |-> "Bool", v |-> IF b THEN 1 ELSE 0]
IntV(i) == [t |-> "Int", v |-> i]
FloatV(f) == [t |-> "Float", v |-> f]
StrV(s) == [t |-> "Str", v |-> s]

\* The order of the variants in the ordered value map.
type_order(val) ==
    CASE val.t = "Bool" -> 0
      [] val.t = "Int" -> 1
      [] val.t = "Float" -> 2
      [] val.t = "Str" -> 3

\* MetadataValue's total order: by variant first, then by payload.
MetadataValue_lt(a, b) ==
    IF a.t = b.t THEN a.v < b.v ELSE type_order(a) < type_order(b)

\* The user id of the record that lives at an offset id (the fixtures' int_as_id).
int_as_id(o) == o
\* The user ids a query can name: one per offset id, and one no record carries.
UserIds == 0..(MaxOffset + 1)

\* The keys records carry metadata under.
Keys == {"k"}
\* The values a record or a query can hold.
Values == {IntV(1), IntV(2), StrV(1)}

NoMeta == <<>>
MetaOf(val) == [key \in Keys |-> val]

\* The contents a record can have: metadata (a map from keys to values) and an
\* optional document (a sequence of characters).
RecordKinds ==
    { [meta |-> MetaOf(IntV(1)), doc |-> Some(<<"a", "b">>)],
      [meta |-> MetaOf(IntV(2)), doc |-> Some(<<"b">>)],
      [meta |-> MetaOf(StrV(1)), doc |-> None],
      [meta |-> NoMeta, doc |-> Some(<<"b", "a">>)] }

\* The contents of the records of the runs with a whitelist.
RunKinds ==
    { [meta |-> MetaOf(IntV(1)), doc |-> Some(<<"a", "b">>)],
      [meta |-> NoMeta, doc |-> None] }

----------------------------------------------------------------------------
(* SignedRoaringBitmap: Include(B) is the set B, Exclude(B) is universe \ B. *)

Include(B) == [sign |-> "Include", bm |-> B]
Exclude(B) == [sign |-> "Exclude", bm |-> B]

SignedRoaringBitmap_empty == Include({})
SignedRoaringBitmap_full == Exclude({})

BitAnd(a, b) ==
    CASE a.sign = "Include" /\ b.sign = "Include" -> Include(a.bm \cap b.bm)
      [] a.sign = "Include" /\ b.sign = "Exclude" -> Include(a.bm \ b.bm)
      [] a.sign = "Exclude" /\ b.sign = "Include" -> Include(b.bm \ a.bm)
      [] a.sign = "Exclude" /\ b.sign = "Exclude" -> Exclude(a.bm \cup b.bm)

BitOr(a, b) ==
    CASE a.sign = "Include" /\ b.sign = "Include" -> Include(a.bm \cup b.bm)
      [] a.sign = "Include" /\ b.sign = "Exclude" -> Exclude(b.bm \ a.bm)
      [] a.sign = "Exclude" /\ b.sign = "Include" -> Exclude(a.bm \ b.bm)
      [] a.sign = "Exclude" /\ b.sign = "Exclude" -> Exclude(a.bm \cap b.bm)

\* The complement: Include and Exclude swapped over the same bitmap.
BitNot(a) == IF a.sign = "Include" THEN Exclude(a.bm) ELSE Include(a.bm)

\* o is a member of the set a signed bitmap denotes.
Member(o, s) == IF s.sign = "Include" THEN o \in s.bm ELSE o \notin s.bm

----------------------------------------------------------------------------
(* MetadataLogReader: the log view. *)

\* A map with one entry inserted (HashMap::insert, BTreeMap entry().or_default()).
MapInsert(m, k, v) == [x \in (DOMAIN m) \cup {k} |-> IF x = k THEN v ELSE m[x]]

\* InsertMetadata, the offset id replacing the ones filed under the value.
InsertMetadata_replaces_bitmap(cm, key, val, offset_id) ==
    LET inner == IF key \in DOMAIN cm THEN cm[key] ELSE <<>>
    IN MapInsert(cm, key, MapInsert(inner, val, {offset_id}))

\* compact_metadata.entry(key).or_default().entry(val).or_default().insert(offset_id)
InsertMetadata(cm, key, val, offset_id) ==
    LET inner == IF key \in DOMAIN cm THEN cm[key] ELSE <<>>
        bitmap == IF val \in DOMAIN inner THEN inner[val] ELSE {}
    IN MapInsert(cm, key, MapInsert(inner, val, bitmap \cup {offset_id}))

\* for (key, val) in log_metadata: insert the offset id under compact_metadata[key][val]
RECURSIVE InsertAllMetadata(_, _, _, _)
InsertAllMetadata(cm, meta, keys, offset_id) ==
    IF keys = {} THEN cm
    ELSE LET key == CHOOSE k \in keys : TRUE
         IN InsertAllMetadata(InsertMetadata(cm, key, meta[key], offset_id),
                              meta, keys \ {key}, offset_id)

\* create_step, taking an updated entry for one the log created.
create_step_update_unshadowed(r, log) ==
    LET r1 == IF log.op \notin {"Initial", "AddNew", "UpdateExisting"}
              THEN [r EXCEPT !.updated_offset_ids = @ \cup {log.offset_id}]
              ELSE r
    IN IF log.op # "DeleteExisting"
       THEN [r1 EXCEPT
               !.user_id_to_offset_id = MapInsert(@, log.user_id, log.offset_id),
               !.compact_metadata =
                   InsertAllMetadata(@, log.meta, DOMAIN log.meta, log.offset_id),
               !.document = IF is_some(log.doc)
                            THEN MapInsert(@, log.offset_id, unwrap(log.doc))
                            ELSE @]
       ELSE r1

\* create_step, shadowing the offset of every entry.
create_step_shadows_all(r, log) ==
    LET r1 == [r EXCEPT !.updated_offset_ids = @ \cup {log.offset_id}]
    IN IF log.op # "DeleteExisting"
       THEN [r1 EXCEPT
               !.user_id_to_offset_id = MapInsert(@, log.user_id, log.offset_id),
               !.compact_metadata =
                   InsertAllMetadata(@, log.meta, DOMAIN log.meta, log.offset_id),
               !.document = IF is_some(log.doc)
                            THEN MapInsert(@, log.offset_id, unwrap(log.doc))
                            ELSE @]
       ELSE r1

\* create_step, keeping the user id of a deleted entry.
create_step_keeps_deleted(r, log) ==
    LET r1 == IF log.op \notin {"Initial", "AddNew"}
              THEN [r EXCEPT !.updated_offset_ids = @ \cup {log.offset_id}]
              ELSE r
    IN [r1 EXCEPT
          !.user_id_to_offset_id = MapInsert(@, log.user_id, log.offset_id),
          !.compact_metadata =
              InsertAllMetadata(@, log.meta, DOMAIN log.meta, log.offset_id),
          !.document = IF is_some(log.doc)
                       THEN MapInsert(@, log.offset_id, unwrap(log.doc))
                       ELSE @]

\* One iteration of the loop of MetadataLogReader::create over a log entry.
create_step(r, log) ==
    LET r1 == IF log.op \notin {"Initial", "AddNew"}
              THEN [r EXCEPT !.updated_offset_ids = @ \cup {log.offset_id}]
              ELSE r
    IN IF log.op # "DeleteExisting"
       THEN [r1 EXCEPT
               !.user_id_to_offset_id = MapInsert(@, log.user_id, log.offset_id),
               !.compact_metadata =
                   InsertAllMetadata(@, log.meta, DOMAIN log.meta, log.offset_id),
               !.document = IF is_some(log.doc)
                            THEN MapInsert(@, log.offset_id, unwrap(log.doc))
                            ELSE @]
       ELSE r1

RECURSIVE create_loop(_, _, _)
create_loop(ls, i, r) ==
    IF i > Len(ls) THEN r ELSE create_loop(ls, i + 1, create_step(r, ls[i]))

\* MetadataLogReader::create
MetadataLogReader_create(ls) ==
    create_loop(ls, 1, [compact_metadata |-> <<>>,
                        document |-> <<>>,
                        updated_offset_ids |-> {},
                        user_id_to_offset_id |-> <<>>])

\* log.hydrate(record_segment_reader)
hydrate(log) == IF log.hydration_error THEN Err("LogMaterializer") ELSE Ok(log)

\* The entries create hydrates that fail to hydrate.
failing_hydrations(ls) ==
    { i \in 1..Len(ls) : ls[i].op # "DeleteExisting" /\ ~hydrate(ls[i]).ok }

\* The metadata_log_reader of run, skipping the entries that fail to hydrate.
metadata_log_reader_of_skips_failures(ls) ==
    Ok(MetadataLogReader_create(
           SelectSeq(ls, LAMBDA log : log.op = "DeleteExisting" \/ hydrate(log).ok)))

\* The metadata_log_reader of run: MetadataLogReader::create, that returns the
\* error of the first entry that fails to hydrate, and no reader.
metadata_log_reader_of(ls) ==
    IF failing_hydrations(ls) # {} THEN Err("LogMaterializer")
    ELSE Ok(MetadataLogReader_create(ls))

\* The entries of the ordered value map that BTreeMap::range(bounds) visits.
in_bounds(x, val, op) ==
    CASE op = "Equal" -> x = val
      [] op = "GreaterThan" -> MetadataValue_lt(val, x)
      [] op = "GreaterThanOrEqual" -> x = val \/ MetadataValue_lt(val, x)
      [] op = "LessThan" -> MetadataValue_lt(x, val)
      [] op = "LessThanOrEqual" -> x = val \/ MetadataValue_lt(x, val)

\* MetadataLogReader::get. The NotEqual arm is unreachable!(): reaching it is a
\* panic.
MetadataLogReader_get(reader, key, val, op) ==
    IF key \in DOMAIN reader.compact_metadata
    THEN IF op = "NotEqual" THEN Err("Panic")
         ELSE LET metadata_value_to_offset_ids == reader.compact_metadata[key]
              IN Ok(UNION { metadata_value_to_offset_ids[x] :
                              x \in { y \in DOMAIN metadata_value_to_offset_ids :
                                        in_bounds(y, val, op) } })
    ELSE Ok({})

\* MetadataLogReader::search_user_ids
search_user_ids(reader, user_ids) ==
    { reader.user_id_to_offset_id[user_ids[i]] :
        i \in { j \in 1..Len(user_ids) :
                  user_ids[j] \in DOMAIN reader.user_id_to_offset_id } }

----------------------------------------------------------------------------
(* Documents and patterns. A document is a sequence of characters; a pattern *)
(* is a sequence of tokens: characters, a leading "^" (a look-around         *)
(* assertion: the start of the text) and "(" (an unclosed group).            *)

IsPrefix(q, d) == Len(q) <= Len(d) /\ SubSeq(d, 1, Len(q)) = q

\* str::contains
IsSubstring(q, d) ==
    \E i \in 0..(Len(d) - Len(q)) : SubSeq(d, i + 1, i + Len(q)) = q

\* ChromaRegex::try_from succeeds
regex_parses(query) == \A i \in 1..Len(query) : query[i] # "("

\* chroma_regex.properties().look_set().is_empty()
look_set_is_empty(query) == \A i \in 1..Len(query) : query[i] # "^"

\* The literal expression of the pattern's HIR: its characters.
LiteralExpr_from(query) ==
    IF Len(query) > 0 /\ query[1] = "^" THEN Tail(query) ELSE query

\* Regex::is_match
regex_is_match(query, doc) ==
    IF look_set_is_empty(query)
    THEN IsSubstring(query, doc)
    ELSE IsPrefix(LiteralExpr_from(query), doc)

----------------------------------------------------------------------------
(* The readers of the committed segment. *)

IndexReaders == {"bool", "u32", "f32", "string", "full_text"}

\* RecordSegmentReader::from_segment: None for an uninitialized segment.
RecordSegmentReader_from_segment(seg) ==
    IF seg.initialized
    THEN Some([recs |-> seg.recs, read_error |-> seg.read_error])
    ELSE None

\* The reads of a record segment reader: each fails when the blockfiles of the
\* segment cannot be read.
get_offset_stream(rec_reader) ==
    IF rec_reader.read_error THEN Err("Record") ELSE Ok(DOMAIN rec_reader.recs)
count(rec_reader) ==
    IF rec_reader.read_error THEN Err("Record")
    ELSE Ok(Cardinality(DOMAIN rec_reader.recs))
get_data_for_offset_id(rec_reader, id) ==
    IF rec_reader.read_error THEN Err("Record")
    ELSE Ok(IF id \in DOMAIN rec_reader.recs THEN Some(rec_reader.recs[id]) ELSE None)
get_data_stream(rec_reader) ==
    IF rec_reader.read_error THEN Err("Record") ELSE Ok(rec_reader.recs)

\* record_segment_reader_of, taking every creation error for an absent reader.
record_segment_reader_of_swallows_all(seg) ==
    Ok(IF seg.creation_error THEN None ELSE RecordSegmentReader_from_segment(seg))

\* The record_segment_reader of run: RecordSegmentReader::from_segment, with
\* UninitializedSegment taken for an absent reader and any other creation
\* error returned.
record_segment_reader_of(seg) ==
    IF seg.creation_error THEN Err("RecordReader")
    ELSE Ok(RecordSegmentReader_from_segment(seg))

\* The metadata_segement_reader of run: the error of
\* MetadataSegmentReader::from_segment is returned.
metadata_segment_reader_fails(seg) == seg.metadata_error

\* MetadataSegmentReader::from_segment: the index readers the metadata segment
\* has files for.
MetadataSegmentReader_from_segment(seg) ==
    [recs |-> seg.recs, readers |-> seg.readers]

\* `*i as u32`: the integer modulo the range of the index's key word. The
\* range is 2^32 in the program and is scaled down here, the model checker's
\* integers being 32 bits wide.
U32Range == 16
AsU32(i) == i % U32Range

\* The typed index a value is looked up in, and the key word it is looked up as.
index_reader_of(val) ==
    CASE val.t = "Bool" -> "bool"
      [] val.t = "Int" -> "u32"
      [] val.t = "Float" -> "f32"
      [] val.t = "Str" -> "string"

key_word(val) == IF val.t = "Int" THEN AsU32(val.v) ELSE val.v

satisfies(x, op, kw) ==
    CASE op = "Equal" -> x = kw
      [] op = "GreaterThan" -> x > kw
      [] op = "GreaterThanOrEqual" -> x >= kw
      [] op = "LessThan" -> x < kw
      [] op = "LessThanOrEqual" -> x <= kw

\* reader.get / gt / gte / lt / lte of a typed metadata index
metadata_index_lookup(recs, reader, key, kw, op) ==
    { o \in DOMAIN recs :
        /\ key \in DOMAIN recs[o].meta
        /\ index_reader_of(recs[o].meta[key]) = reader
        /\ satisfies(key_word(recs[o].meta[key]), op, kw) }

\* full_text_index_reader.search
full_text_search(recs, query) ==
    { o \in DOMAIN recs :
        is_some(recs[o].doc) /\ IsSubstring(query, unwrap(recs[o].doc)) }

\* full_text_index_reader.match_literal_expression: the offsets whose document
\* might match, or None when the index cannot filter (an empty literal).
match_literal_expression(recs, literal_expr) ==
    IF literal_expr = <<>> THEN None ELSE Some(full_text_search(recs, literal_expr))

\* full_text_index_reader.can_match_exactly
can_match_exactly(literal_expr) == TRUE

----------------------------------------------------------------------------
(* MetadataProvider *)

LogProvider(reader) == [variant |-> "Log", reader |-> reader]
CompactDataProvider(metadata_segment_reader, record_segment_reader) ==
    [variant |-> "CompactData",
     metadata |-> metadata_segment_reader,
     record |-> record_segment_reader]

\* MetadataProvider::filter_by_document_contains
filter_by_document_contains(provider, query) ==
    IF provider.variant = "CompactData"
    THEN IF "full_text" \in provider.metadata.readers
         THEN Ok(full_text_search(provider.metadata.recs, query))
         ELSE Ok({})
    ELSE Ok({ o \in DOMAIN provider.reader.document :
                IsSubstring(query, provider.reader.document[o]) })

\* The candidate set is small enough for point lookups when it has fewer
\* offsets than count / PointLookupDivisor.
PointLookupDivisor == 10

\* The guard of the point lookups: offset_ids.len() < count / 10, the division
\* being the one of integers.
uses_point_lookups(approximate_matching_offset_ids, record_count) ==
    /\ is_some(approximate_matching_offset_ids)
    /\ Cardinality(unwrap(approximate_matching_offset_ids))
         < record_count \div PointLookupDivisor

\* rec.document.is_some_and(|doc| regex.is_match(doc))
document_matches(rec, query) ==
    is_some(rec.doc) /\ regex_is_match(query, unwrap(rec.doc))

\* The point lookups, keeping every candidate the record segment holds.
point_lookup_matches_unverified(rec_reader, query, offset_ids) ==
    IF offset_ids # {} /\ rec_reader.read_error THEN Err("Record")
    ELSE Ok({ id \in offset_ids : is_some(get_data_for_offset_id(rec_reader, id).val) })

\* The point lookups of the candidates: a candidate is kept when the record
\* segment holds it and its document matches.
point_lookup_matches(rec_reader, query, offset_ids) ==
    IF offset_ids # {} /\ rec_reader.read_error THEN Err("Record")
    ELSE Ok({ id \in offset_ids :
                LET data == get_data_for_offset_id(rec_reader, id).val
                IN is_some(data) /\ document_matches(unwrap(data), query) })

\* The range scan of all records: a record is kept when it is a candidate, or
\* there are no candidates, and its document matches.
range_scan_matches(rec_reader, query, candidate_offsets) ==
    LET stream == get_data_stream(rec_reader)
    IN IF ~stream.ok THEN Err(stream.err)
       ELSE Ok({ offset \in DOMAIN stream.val :
                   /\ \/ candidate_offsets = None
                      \/ offset \in unwrap(candidate_offsets)
                   /\ document_matches(stream.val[offset], query) })

\* MetadataProvider::filter_by_document_regex. The offset stream of an exact
\* match is the argument of unwrap_or: it is read before unwrap_or is called.
filter_by_document_regex(provider, query) ==
    IF ~regex_parses(query) THEN Err("Regex")
    ELSE IF provider.variant = "CompactData"
    THEN IF "full_text" \in provider.metadata.readers /\ is_some(provider.record)
         THEN LET rec_reader == unwrap(provider.record)
                  literal_expr == LiteralExpr_from(query)
                  approximate_matching_offset_ids ==
                      match_literal_expression(provider.metadata.recs, literal_expr)
                  is_exact_match ==
                      look_set_is_empty(query) /\ can_match_exactly(literal_expr)
              IN IF is_exact_match
                 THEN IF ~get_offset_stream(rec_reader).ok
                      THEN Err(get_offset_stream(rec_reader).err)
                      ELSE Ok(unwrap_or(approximate_matching_offset_ids,
                                        get_offset_stream(rec_reader).val))
                 ELSE IF is_some(approximate_matching_offset_ids)
                      THEN IF ~count(rec_reader).ok THEN Err(count(rec_reader).err)
                           ELSE IF uses_point_lookups(approximate_matching_offset_ids,
                                                      count(rec_reader).val)
                           THEN point_lookup_matches(
                                    rec_reader, query,
                                    unwrap(approximate_matching_offset_ids))
                           ELSE range_scan_matches(rec_reader, query,
                                                   approximate_matching_offset_ids)
                      ELSE range_scan_matches(rec_reader, query,
                                              approximate_matching_offset_ids)
         ELSE Ok({})
    ELSE Ok({ o \in DOMAIN provider.reader.document :
                regex_is_match(query, provider.reader.document[o]) })

\* filter_by_metadata, failing when the typed index of the value is absent.
filter_by_metadata_absent_is_error(provider, key, val, op) ==
    IF provider.variant = "CompactData"
    THEN IF index_reader_of(val) \in provider.metadata.readers
         THEN IF op = "NotEqual" THEN Err("Panic")
              ELSE Ok(metadata_index_lookup(provider.metadata.recs,
                                            index_reader_of(val), key, key_word(val), op))
         ELSE Err("Index")
    ELSE MetadataLogReader_get(provider.reader, key, val, op)

\* MetadataProvider::filter_by_metadata. The NotEqual arm is unreachable!():
\* reaching it is a panic.
filter_by_metadata(provider, key, val, op) ==
    IF provider.variant = "CompactData"
    THEN IF index_reader_of(val) \in provider.metadata.readers
         THEN IF op = "NotEqual" THEN Err("Panic")
              ELSE Ok(metadata_index_lookup(provider.metadata.recs,
                                            index_reader_of(val), key, key_word(val), op))
         ELSE Ok({})
    ELSE MetadataLogReader_get(provider.reader, key, val, op)

----------------------------------------------------------------------------
(* The evaluation of a Where clause on a provider.                          *)
(*   Metadata:  [kind, key, comparison]                                     *)
(*     comparison: [kind |-> "Primitive", op, value]                        *)
(*                 [kind |-> "Set", op, t, vec]   (MetadataSetValue t(vec)) *)
(*   Document:  [kind, operator, pattern]                                   *)
(*   Composite: [kind, operator, children]                                  *)

\* The result of an evaluation, with the provider calls it made, in order.
Evaluated(bitmap, calls) == [ok |-> TRUE, val |-> bitmap, calls |-> calls]
Failed(e, calls) == [ok |-> FALSE, err |-> e, calls |-> calls]

MetadataCall(key, val, op) ==
    [fn |-> "filter_by_metadata", key |-> key, val |-> val, op |-> op]
DocumentCall(fn, query) == [fn |-> fn, query |-> query]

RECURSIVE fold_bitor(_, _, _)
fold_bitor(evals, i, acc) ==
    IF i > Len(evals) THEN acc ELSE fold_bitor(evals, i + 1, BitOr(acc, evals[i]))

RECURSIVE fold_bitand(_, _, _)
fold_bitand(evals, i, acc) ==
    IF i > Len(evals) THEN acc ELSE fold_bitand(evals, i + 1, BitAnd(acc, evals[i]))

\* set_child_evaluations, pushing Include for NotIn too.
RECURSIVE set_child_evaluations_all_include(_, _, _, _, _, _, _)
set_child_evaluations_all_include(provider, key, child_values, set_operator, i, child_evaluations, calls) ==
    IF i > Len(child_values) THEN Evaluated(child_evaluations, calls)
    ELSE LET eval == filter_by_metadata(provider, key, child_values[i], "Equal")
             called == Append(calls, MetadataCall(key, child_values[i], "Equal"))
         IN IF ~eval.ok THEN Failed(eval.err, called)
            ELSE set_child_evaluations_all_include(
                     provider, key, child_values, set_operator, i + 1,
                     Append(child_evaluations, Include(eval.val)), called)

\* The loop of a Set comparison over child_values: one equality lookup a
\* value; the first lookup that fails ends it.
RECURSIVE set_child_evaluations(_, _, _, _, _, _, _)
set_child_evaluations(provider, key, child_values, set_operator, i, child_evaluations, calls) ==
    IF i > Len(child_values) THEN Evaluated(child_evaluations, calls)
    ELSE LET eval == filter_by_metadata(provider, key, child_values[i], "Equal")
             called == Append(calls, MetadataCall(key, child_values[i], "Equal"))
         IN IF ~eval.ok THEN Failed(eval.err, called)
            ELSE set_child_evaluations(
                     provider, key, child_values, set_operator, i + 1,
                     Append(child_evaluations,
                            IF set_operator = "In"
                            THEN Include(eval.val) ELSE Exclude(eval.val)),
                     called)

\* MetadataExpression::eval, with NotEqual handed to the provider like the
\* other operators and In folded from the universe.
MetadataExpression_eval_passes_not_equal(expr, provider) ==
    IF expr.comparison.kind = "Primitive"
    THEN LET r == filter_by_metadata(provider, expr.key,
                                     expr.comparison.value, expr.comparison.op)
             calls == <<MetadataCall(expr.key, expr.comparison.value,
                                     expr.comparison.op)>>
         IN IF r.ok THEN Evaluated(Include(r.val), calls)
            ELSE Failed(r.err, calls)
    ELSE LET child_values ==
                 [i \in 1..Len(expr.comparison.vec) |->
                    [t |-> expr.comparison.t, v |-> expr.comparison.vec[i]]]
             evals == set_child_evaluations(provider, expr.key, child_values,
                                            expr.comparison.op, 1, <<>>, <<>>)
         IN IF ~evals.ok THEN evals
            ELSE IF expr.comparison.op = "In"
                 THEN Evaluated(fold_bitor(evals.val, 1, SignedRoaringBitmap_full),
                                evals.calls)
                 ELSE Evaluated(fold_bitand(evals.val, 1, SignedRoaringBitmap_full),
                                evals.calls)

\* MetadataExpression::eval
MetadataExpression_eval(expr, provider) ==
    IF expr.comparison.kind = "Primitive"
    THEN IF expr.comparison.op = "NotEqual"
         THEN LET r == filter_by_metadata(provider, expr.key,
                                          expr.comparison.value, "Equal")
                  calls == <<MetadataCall(expr.key, expr.comparison.value, "Equal")>>
              IN IF r.ok THEN Evaluated(Exclude(r.val), calls)
                 ELSE Failed(r.err, calls)
         ELSE LET r == filter_by_metadata(provider, expr.key,
                                          expr.comparison.value, expr.comparison.op)
                  calls == <<MetadataCall(expr.key, expr.comparison.value,
                                          expr.comparison.op)>>
              IN IF r.ok THEN Evaluated(Include(r.val), calls)
                 ELSE Failed(r.err, calls)
    ELSE LET child_values ==
                 [i \in 1..Len(expr.comparison.vec) |->
                    [t |-> expr.comparison.t, v |-> expr.comparison.vec[i]]]
             evals == set_child_evaluations(provider, expr.key, child_values,
                                            expr.comparison.op, 1, <<>>, <<>>)
         IN IF ~evals.ok THEN evals
            ELSE IF expr.comparison.op = "In"
                 THEN Evaluated(fold_bitor(evals.val, 1, SignedRoaringBitmap_empty),
                                evals.calls)
                 ELSE Evaluated(fold_bitand(evals.val, 1, SignedRoaringBitmap_full),
                                evals.calls)

\* DocumentExpression::eval
DocumentExpression_eval(expr, provider) ==
    CASE expr.operator = "Contains" ->
           LET r == filter_by_document_contains(provider, expr.pattern)
               calls == <<DocumentCall("filter_by_document_contains", expr.pattern)>>
           IN IF r.ok THEN Evaluated(Include(r.val), calls) ELSE Failed(r.err, calls)
      [] expr.operator = "NotContains" ->
           LET r == filter_by_document_contains(provider, expr.pattern)
               calls == <<DocumentCall("filter_by_document_contains", expr.pattern)>>
           IN IF r.ok THEN Evaluated(Exclude(r.val), calls) ELSE Failed(r.err, calls)
      [] expr.operator = "Regex" ->
           LET r == filter_by_document_regex(provider, expr.pattern)
               calls == <<DocumentCall("filter_by_document_regex", expr.pattern)>>
           IN IF r.ok THEN Evaluated(Include(r.val), calls) ELSE Failed(r.err, calls)
      [] expr.operator = "NotRegex" ->
           LET r == filter_by_document_regex(provider, expr.pattern)
               calls == <<DocumentCall("filter_by_document_regex", expr.pattern)>>
           IN IF r.ok THEN Evaluated(Exclude(r.val), calls) ELSE Failed(r.err, calls)

RECURSIVE Where_eval(_, _)
RECURSIVE composite_child_evaluations(_, _, _, _, _)

\* The loop of CompositeExpression::eval over the children, in order; the
\* first child that fails ends it.
composite_child_evaluations(children, provider, i, child_evaluations, calls) ==
    IF i > Len(children) THEN Evaluated(child_evaluations, calls)
    ELSE LET r == Where_eval(children[i], provider)
         IN IF ~r.ok THEN Failed(r.err, calls \o r.calls)
            ELSE composite_child_evaluations(children, provider, i + 1,
                                             Append(child_evaluations, r.val),
                                             calls \o r.calls)

\* CompositeExpression::eval, with the folds of And and Or swapped.
CompositeExpression_eval_swapped_folds(expr, provider) ==
    LET evals == composite_child_evaluations(expr.children, provider, 1, <<>>, <<>>)
    IN IF ~evals.ok THEN evals
       ELSE IF expr.operator = "And"
            THEN Evaluated(fold_bitor(evals.val, 1, SignedRoaringBitmap_empty),
                           evals.calls)
            ELSE Evaluated(fold_bitand(evals.val, 1, SignedRoaringBitmap_full),
                           evals.calls)

\* CompositeExpression::eval, folding both operators from the empty set.
CompositeExpression_eval_from_empty(expr, provider) ==
    LET evals == composite_child_evaluations(expr.children, provider, 1, <<>>, <<>>)
    IN IF ~evals.ok THEN evals
       ELSE IF expr.operator = "And"
            THEN Evaluated(fold_bitand(evals.val, 1, SignedRoaringBitmap_empty),
                           evals.calls)
            ELSE Evaluated(fold_bitor(evals.val, 1, SignedRoaringBitmap_empty),
                           evals.calls)

\* CompositeExpression::eval
CompositeExpression_eval(expr, provider) ==
    LET evals == composite_child_evaluations(expr.children, provider, 1, <<>>, <<>>)
    IN IF ~evals.ok THEN evals
       ELSE IF expr.operator = "And"
            THEN Evaluated(fold_bitand(evals.val, 1, SignedRoaringBitmap_full),
                           evals.calls)
            ELSE Evaluated(fold_bitor(evals.val, 1, SignedRoaringBitmap_empty),
                           evals.calls)

\* Where::eval
Where_eval(w, provider) ==
    CASE w.kind = "Metadata" -> MetadataExpression_eval(w, provider)
      [] w.kind = "Document" -> DocumentExpression_eval(w, provider)
      [] w.kind = "Composite" -> CompositeExpression_eval(w, provider)

----------------------------------------------------------------------------
(* FilterOperator::run *)

\* RecordSegmentReader::get_offset_id_for_user_id
get_offset_id_for_user_id(recs, user_id) ==
    { o \in DOMAIN recs : recs[o].user_id = user_id }

\* The loop of run over user_allowed_ids on the record segment: ids the
\* segment does not know are dropped.
RECURSIVE compact_user_offset_ids(_, _, _, _)
compact_user_offset_ids(recs, user_allowed_ids, i, offset_ids) ==
    IF i > Len(user_allowed_ids) THEN offset_ids
    ELSE compact_user_offset_ids(
             recs, user_allowed_ids, i + 1,
             offset_ids \cup get_offset_id_for_user_id(recs, user_allowed_ids[i]))

\* user_allowed_offset_ids, taking a whitelist that names no known id for no
\* whitelist.
user_allowed_offset_ids_empty_is_full(qids, metadata_log_reader, record_segment_reader) ==
    LET log_ids == IF is_some(qids)
                   THEN search_user_ids(metadata_log_reader, unwrap(qids)) ELSE {}
        compact_ids == IF is_some(qids) /\ is_some(record_segment_reader)
                       THEN compact_user_offset_ids(
                                unwrap(record_segment_reader).recs, unwrap(qids), 1, {})
                       ELSE {}
    IN [log |-> IF log_ids = {} THEN SignedRoaringBitmap_full ELSE Include(log_ids),
        compact |-> IF compact_ids = {}
                    THEN SignedRoaringBitmap_full ELSE Include(compact_ids)]

\* user_allowed_offset_ids, allowing no offset of the segment when the record
\* reader is absent.
user_allowed_offset_ids_absent_is_empty(qids, metadata_log_reader, record_segment_reader) ==
    IF is_some(qids)
    THEN [log |-> Include(search_user_ids(metadata_log_reader, unwrap(qids))),
          compact |-> IF is_some(record_segment_reader)
                      THEN Include(compact_user_offset_ids(
                                       unwrap(record_segment_reader).recs, unwrap(qids), 1, {}))
                      ELSE SignedRoaringBitmap_empty]
    ELSE [log |-> SignedRoaringBitmap_full, compact |-> SignedRoaringBitmap_full]

\* reader.get_offset_id_for_user_id fails for a listed user id: the blockfiles
\* of the record segment cannot be read.
user_id_lookup_fails(qids, record_segment_reader) ==
    /\ is_some(qids) /\ unwrap(qids) # <<>>
    /\ is_some(record_segment_reader) /\ unwrap(record_segment_reader).read_error

\* The whitelist masks (user_allowed_log_offset_ids, user_allowed_compact_offset_ids).
user_allowed_offset_ids(qids, metadata_log_reader, record_segment_reader) ==
    IF is_some(qids)
    THEN [log |-> Include(search_user_ids(metadata_log_reader, unwrap(qids))),
          compact |-> IF is_some(record_segment_reader)
                      THEN Include(compact_user_offset_ids(
                                       unwrap(record_segment_reader).recs, unwrap(qids), 1, {}))
                      ELSE SignedRoaringBitmap_full]
    ELSE [log |-> SignedRoaringBitmap_full, compact |-> SignedRoaringBitmap_full]

\* The error run returns before it resolves the whitelist (run_open_error) and
\* before it evaluates the clause (run_setup_error), if any: of the record
\* segment reader, of the log reader, of the metadata segment reader, of the
\* lookups of the whitelist, in this order.
run_open_error(seg, ls) ==
    IF ~record_segment_reader_of(seg).ok THEN Some(record_segment_reader_of(seg).err)
    ELSE IF ~metadata_log_reader_of(ls).ok THEN Some(metadata_log_reader_of(ls).err)
    ELSE IF metadata_segment_reader_fails(seg) THEN Some("MetadataReader")
    ELSE None

run_setup_error(seg, ls, qids) ==
    IF is_some(run_open_error(seg, ls)) THEN run_open_error(seg, ls)
    ELSE IF user_id_lookup_fails(qids, RecordSegmentReader_from_segment(seg))
    THEN Some("Record")
    ELSE None

\* run_evals, evaluating the clause on the segment provider whatever the
\* evaluation on the log provider gave.
run_evals_evaluates_both(seg, ls, qids, wc) ==
    LET record_segment_reader == RecordSegmentReader_from_segment(seg)
        metadata_log_reader == MetadataLogReader_create(ls)
        log_metadata_provider == LogProvider(metadata_log_reader)
        compact_metadata_provider ==
            CompactDataProvider(MetadataSegmentReader_from_segment(seg),
                                record_segment_reader)
    IN IF is_some(wc) /\ run_setup_error(seg, ls, qids) = None
       THEN [log |-> Some(Where_eval(unwrap(wc), log_metadata_provider)),
             compact |-> Some(Where_eval(unwrap(wc), compact_metadata_provider))]
       ELSE [log |-> None, compact |-> None]

\* The two evaluations of the clause run makes, the log provider first; the
\* segment provider is not evaluated when the log provider fails.
run_evals(seg, ls, qids, wc) ==
    LET record_segment_reader == RecordSegmentReader_from_segment(seg)
        metadata_log_reader == MetadataLogReader_create(ls)
        log_metadata_provider == LogProvider(metadata_log_reader)
        compact_metadata_provider ==
            CompactDataProvider(MetadataSegmentReader_from_segment(seg),
                                record_segment_reader)
    IN IF is_some(wc) /\ run_setup_error(seg, ls, qids) = None
       THEN LET log_eval == Where_eval(unwrap(wc), log_metadata_provider)
            IN [log |-> Some(log_eval),
                compact |-> IF log_eval.ok
                            THEN Some(Where_eval(unwrap(wc), compact_metadata_provider))
                            ELSE None]
       ELSE [log |-> None, compact |-> None]

\* FilterOperator::run, with the shadow mask left out when a clause is set.
FilterOperator_run_unmasked_clause(seg, ls, qids, wc) ==
    LET record_segment_reader == RecordSegmentReader_from_segment(seg)
        metadata_log_reader == MetadataLogReader_create(ls)
        allowed == user_allowed_offset_ids(qids, metadata_log_reader,
                                           record_segment_reader)
        evals == run_evals(seg, ls, qids, wc)
        shadow == Exclude(metadata_log_reader.updated_offset_ids)
    IN IF is_some(wc)
       THEN IF ~unwrap(evals.log).ok THEN Err(unwrap(evals.log).err)
            ELSE IF ~unwrap(evals.compact).ok THEN Err(unwrap(evals.compact).err)
            ELSE Ok([log_offset_ids |->
                         BitAnd(unwrap(evals.log).val, allowed.log),
                     compact_offset_ids |->
                         BitAnd(unwrap(evals.compact).val, allowed.compact)])
       ELSE Ok([log_offset_ids |-> allowed.log,
                compact_offset_ids |-> BitAnd(allowed.compact, shadow)])

\* FilterOperator::run
FilterOperator_run(seg, ls, qids, wc) ==
    LET record_segment_reader == RecordSegmentReader_from_segment(seg)
        metadata_log_reader == MetadataLogReader_create(ls)
        allowed == user_allowed_offset_ids(qids, metadata_log_reader,
                                           record_segment_reader)
        evals == run_evals(seg, ls, qids, wc)
        shadow == Exclude(metadata_log_reader.updated_offset_ids)
    IN IF is_some(run_setup_error(seg, ls, qids))
       THEN Err(unwrap(run_setup_error(seg, ls, qids)))
       ELSE IF is_some(wc)
       THEN IF ~unwrap(evals.log).ok THEN Err(unwrap(evals.log).err)
            ELSE IF ~unwrap(evals.compact).ok THEN Err(unwrap(evals.compact).err)
            ELSE Ok([log_offset_ids |->
                         BitAnd(unwrap(evals.log).val, allowed.log),
                     compact_offset_ids |->
                         BitAnd(BitAnd(unwrap(evals.compact).val, allowed.compact),
                                shadow)])
       ELSE Ok([log_offset_ids |-> allowed.log,
                compact_offset_ids |-> BitAnd(allowed.compact, shadow)])

----------------------------------------------------------------------------
(* FilterOperator::run, step by step: what an invocation holds between its *)
(* awaits is its own; the segment and the log are borrowed unchanged.      *)

Invocation(qids, wc) ==
    [query_ids |-> qids, where_clause |-> wc, pc |-> "ready", log_view |-> None,
     user_allowed |-> None, log_offset_ids |-> None, output |-> None]

returned(inv, result) == [inv EXCEPT !.pc = "done", !.output = Some(result)]

\* The readers are opened and the log view is created.
open_readers(invs, i, seg, ls) ==
    IF is_some(run_open_error(seg, ls))
    THEN returned(invs[i], Err(unwrap(run_open_error(seg, ls))))
    ELSE [invs[i] EXCEPT !.pc = "opened",
                         !.log_view = Some(metadata_log_reader_of(ls).val)]

\* resolve_whitelist, every invocation taking the query_ids of the first.
resolve_whitelist_of_first(invs, i, seg, ls) ==
    IF user_id_lookup_fails(invs[1].query_ids, RecordSegmentReader_from_segment(seg))
    THEN returned(invs[i], Err("Record"))
    ELSE [invs[i] EXCEPT
            !.pc = "allowed",
            !.user_allowed =
                Some(user_allowed_offset_ids(invs[1].query_ids, unwrap(invs[i].log_view),
                                             RecordSegmentReader_from_segment(seg)))]

\* The whitelist is resolved against the log view and the record segment.
resolve_whitelist(invs, i, seg, ls) ==
    IF user_id_lookup_fails(invs[i].query_ids, RecordSegmentReader_from_segment(seg))
    THEN returned(invs[i], Err("Record"))
    ELSE [invs[i] EXCEPT
            !.pc = "allowed",
            !.user_allowed =
                Some(user_allowed_offset_ids(invs[i].query_ids, unwrap(invs[i].log_view),
                                             RecordSegmentReader_from_segment(seg)))]

\* log_offset_ids: the clause is evaluated on the log provider.
eval_log(invs, i, seg, ls) ==
    LET inv == invs[i]
        allowed == unwrap(inv.user_allowed)
        eval == Where_eval(unwrap(inv.where_clause), LogProvider(unwrap(inv.log_view)))
    IN IF inv.where_clause = None
       THEN [inv EXCEPT !.pc = "log_done", !.log_offset_ids = Some(allowed.log)]
       ELSE IF ~eval.ok THEN returned(inv, Err(eval.err))
       ELSE [inv EXCEPT !.pc = "log_done",
                        !.log_offset_ids = Some(BitAnd(eval.val, allowed.log))]

\* compact_offset_ids: the clause is evaluated on the segment provider, and the
\* output is returned.
eval_compact(invs, i, seg, ls) ==
    LET inv == invs[i]
        allowed == unwrap(inv.user_allowed)
        shadow == Exclude(unwrap(inv.log_view).updated_offset_ids)
        eval == Where_eval(unwrap(inv.where_clause),
                           CompactDataProvider(MetadataSegmentReader_from_segment(seg),
                                               RecordSegmentReader_from_segment(seg)))
    IN IF inv.where_clause = None
       THEN returned(inv, Ok([log_offset_ids |-> unwrap(inv.log_offset_ids),
                              compact_offset_ids |-> BitAnd(allowed.compact, shadow)]))
       ELSE IF ~eval.ok THEN returned(inv, Err(eval.err))
       ELSE returned(inv, Ok([log_offset_ids |-> unwrap(inv.log_offset_ids),
                              compact_offset_ids |->
                                  BitAnd(BitAnd(eval.val, allowed.compact), shadow)]))

----------------------------------------------------------------------------
(* The inputs. *)

Record(o, kind) == [user_id |-> int_as_id(o), meta |-> kind.meta, doc |-> kind.doc]

\* The committed segments: uninitialized, or holding a record at some offsets.
Segments(kinds) ==
    {[initialized |-> FALSE, recs |-> <<>>, readers |-> {}, creation_error |-> FALSE, read_error |-> FALSE,
                  metadata_error |-> FALSE]} \cup
    { [initialized |-> TRUE, recs |-> [o \in DOMAIN k |-> Record(o, k[o])],
       readers |-> IndexReaders, creation_error |-> FALSE, read_error |-> FALSE,
                  metadata_error |-> FALSE] :
        k \in UNION { [S -> kinds] : S \in SUBSET Offsets } }

LogEntry(o, op, kind) ==
    [offset_id |-> o, op |-> op, user_id |-> int_as_id(o),
     meta |-> kind.meta, doc |-> kind.doc, hydration_error |-> FALSE]

\* materialize_logs collapses the log to one entry an offset: an offset of the
\* segment is left as it is (Initial), updated, overwritten or deleted; an
\* offset the segment does not hold is created (AddNew). A deleted entry is
\* never hydrated: it carries no content.
EntriesFor(seg, o, kinds, ops) ==
    IF o \in DOMAIN seg.recs
    THEN { LogEntry(o, "DeleteExisting", [meta |-> NoMeta, doc |-> None]) :
             op \in ops \cap {"DeleteExisting"} } \cup
         { LogEntry(o, "Initial", seg.recs[o]) : op \in ops \cap {"Initial"} } \cup
         { LogEntry(o, op, kind) :
             op \in ops \cap {"UpdateExisting", "OverwriteExisting"}, kind \in kinds }
    ELSE { LogEntry(o, "AddNew", kind) : op \in ops \cap {"AddNew"}, kind \in kinds }

RECURSIVE MaterializedLogsFrom(_, _, _, _)
MaterializedLogsFrom(seg, o, kinds, ops) ==
    IF o > MaxOffset THEN {<<>>}
    ELSE LET rest == MaterializedLogsFrom(seg, o + 1, kinds, ops)
         IN rest \cup { <<e>> \o r : e \in EntriesFor(seg, o, kinds, ops), r \in rest }

MaterializedLogOperations ==
    {"Initial", "AddNew", "OverwriteExisting", "UpdateExisting", "DeleteExisting"}

\* The materialized logs over a segment, with entries of the given operations.
MaterializedLogs(seg, kinds, ops) == MaterializedLogsFrom(seg, 0, kinds, ops)

SeqsUpTo(S, n) == UNION { [1..m -> S] : m \in 0..n }

QueryIdOptions == {None} \cup { Some(q) : q \in SeqsUpTo(UserIds, MaxQueryIds) }

PrimitiveOperators ==
    {"Equal", "NotEqual", "GreaterThan", "GreaterThanOrEqual", "LessThan",
     "LessThanOrEqual"}

Primitive(op, value) == [kind |-> "Primitive", op |-> op, value |-> value]
SetComparison(op, t, vec) == [kind |-> "Set", op |-> op, t |-> t, vec |-> vec]
Metadata(key, comparison) == [kind |-> "Metadata", key |-> key, comparison |-> comparison]
Document(operator, pattern) == [kind |-> "Document", operator |-> operator, pattern |-> pattern]
Composite(operator, children) == [kind |-> "Composite", operator |-> operator, children |-> children]

\* The patterns of Document expressions: the empty pattern, literals, an
\* anchored literal, and one that does not parse as a regular expression.
Patterns == {<<>>, <<"b">>, <<"a", "b">>, <<"^", "b">>, <<"(">>}

PrimitiveClauses ==
    { Metadata(key, Primitive(op, value)) :
        key \in Keys, op \in PrimitiveOperators, value \in Values }

SetClauses ==
    { Metadata(key, SetComparison(op, "Int", vec)) :
        key \in Keys, op \in {"In", "NotIn"}, vec \in SeqsUpTo({1, 2}, MaxSetLen) }

DocumentClauses ==
    { Document(operator, pattern) :
        operator \in {"Contains", "NotContains", "Regex", "NotRegex"},
        pattern \in Patterns }

\* The children of the composites of the model: one clause of each form of
\* result (Include, Exclude), a document clause, one that fails, and the
\* composites of at most one of these.
LeafChildren ==
    { Metadata("k", Primitive("Equal", IntV(1))),
      Metadata("k", Primitive("NotEqual", StrV(1))),
      Document("Contains", <<"b">>),
      Document("NotRegex", <<"(">>) }

InnerComposites ==
    { Composite(operator, children) :
        operator \in {"And", "Or"}, children \in SeqsUpTo(LeafChildren, 1) }

CompositeClauses ==
    { Composite(operator, children) :
        operator \in {"And", "Or"},
        children \in SeqsUpTo(LeafChildren, MaxChildren)
                       \cup SeqsUpTo(InnerComposites, 1) }

WhereClauses == PrimitiveClauses \cup SetClauses \cup DocumentClauses \cup CompositeClauses

\* The clauses runs with a whitelist are checked on.
RunClauses ==
    { Metadata("k", Primitive("Equal", IntV(1))),
      Metadata("k", Primitive("NotEqual", IntV(1))),
      Metadata("k", SetComparison("NotIn", "Int", <<1, 2>>)),
      Document("Contains", <<"b">>),
      Document("NotRegex", <<>>),
      Document("Regex", <<"(">>),
      Composite("Or", <<Metadata("k", Primitive("Equal", StrV(1))),
                        Document("NotContains", <<"a", "b">>)>>) }

\* The index readers a metadata segment can be found with: all of them, all
\* but the full-text index, all but the u32 index, none.
ReaderSets ==
    {IndexReaders, IndexReaders \ {"full_text"}, IndexReaders \ {"u32"}, {}}

\* The segments as run can find them: the record segment and the metadata
\* segment are two inputs of run, so the record segment may be uninitialized,
\* or fail to open, whatever indexes the metadata segment has.
SegmentsAsFound(kinds) ==
    { [s EXCEPT !.initialized = i, !.readers = r, !.creation_error = e] :
        s \in Segments(kinds), i \in BOOLEAN, r \in ReaderSets, e \in BOOLEAN }

\* The clauses checked over the segments as found.
SegmentClauses ==
    { Metadata("k", Primitive("Equal", IntV(1))),
      Metadata("k", Primitive("NotEqual", IntV(1))),
      Metadata("k", Primitive("LessThanOrEqual", IntV(1))),
      Metadata("k", SetComparison("In", "Int", <<1>>)),
      Metadata("k", SetComparison("NotIn", "Int", <<1>>)) } \cup
    { Document(operator, pattern) :
        operator \in {"Contains", "NotContains", "Regex", "NotRegex"},
        pattern \in {<<"b">>, <<"^", "a">>, <<"(">>} }

\* The integers compared across the providers: one below zero, one within the
\* range of the u32 key word, one above it.
CompareValues == {IntV(-1), IntV(1), IntV(U32Range + 1), StrV(1)}
CompareKinds == { [meta |-> MetaOf(val), doc |-> None] : val \in CompareValues }

\* The logs that overwrite every record of the segment with its own content:
\* the log and the segment hold the same records.
OverwritingLogs(seg, kinds) ==
    { ls \in MaterializedLogs(seg, kinds, {"OverwriteExisting"}) :
        /\ Len(ls) = Cardinality(DOMAIN seg.recs)
        /\ \A i \in 1..Len(ls) :
               /\ ls[i].meta = seg.recs[ls[i].offset_id].meta
               /\ ls[i].doc = seg.recs[ls[i].offset_id].doc }

CompareClauses ==
    { Metadata(key, Primitive(op, value)) :
        key \in Keys,
        op \in PrimitiveOperators \ {"NotEqual"},
        value \in CompareValues }

\* The segments of the regex runs: uninitialized, or holding any number of
\* records up to MaxRecords, of which the first two may have a document; with
\* or without a full-text index; readable or not.
RegexDocuments == {Some(<<"b">>), Some(<<"a", "b">>), None}
RegexSegments ==
    {[initialized |-> FALSE, recs |-> <<>>, readers |-> {}, creation_error |-> FALSE,
      read_error |-> FALSE, metadata_error |-> FALSE]} \cup
    { [initialized |-> TRUE,
       recs |-> [o \in 0..(n - 1) |->
                   Record(o, [meta |-> NoMeta, doc |-> IF o < 2 THEN d[o] ELSE None])],
       readers |-> r, creation_error |-> FALSE, read_error |-> e,
       metadata_error |-> FALSE] :
        n \in 0..MaxRecords, d \in [0..1 -> RegexDocuments],
        r \in {IndexReaders, IndexReaders \ {"full_text"}}, e \in BOOLEAN }

\* The regex clauses: exact patterns (the empty one, that the index cannot
\* filter by, and a literal), anchored ones (with and without a literal), and
\* one that does not parse.
RegexPatterns == {<<>>, <<"b">>, <<"^", "b">>, <<"^">>, <<"(">>}
RegexClauses ==
    { Document(operator, pattern) :
        operator \in {"Regex", "NotRegex"}, pattern \in RegexPatterns }

\* The runs over a log whose entries may fail to hydrate: the segment holds
\* records of one content and may have a metadata segment that does not open;
\* the entries of the log hold one of two values, or no metadata.
LogSegmentKinds == { [meta |-> MetaOf(IntV(1)), doc |-> Some(<<"a", "b">>)] }
LogKinds ==
    { [meta |-> MetaOf(IntV(1)), doc |-> None],
      [meta |-> MetaOf(IntV(2)), doc |-> Some(<<"b">>)],
      [meta |-> NoMeta, doc |-> None] }
LogSegments ==
    { [seg EXCEPT !.metadata_error = e] : seg \in Segments(LogSegmentKinds), e \in BOOLEAN }
WithHydrationErrors(ls) ==
    { [i \in DOMAIN ls |-> [ls[i] EXCEPT !.hydration_error = failing[i]]] :
        failing \in [DOMAIN ls -> BOOLEAN] }
HydratableLogs(seg) ==
    UNION { WithHydrationErrors(ls) :
              ls \in MaterializedLogs(seg, LogKinds, MaterializedLogOperations) }
LogClause == Metadata("k", Primitive("Equal", IntV(1)))

\* The concurrent runs: the segment and the log hold records of one content;
\* an invocation has no whitelist and no clause, a whitelist and a clause, or
\* a clause that fails.
ConcurrentLogs(seg) ==
    MaterializedLogs(seg, LogSegmentKinds, {"AddNew", "DeleteExisting"})
Invocations ==
    { Invocation(None, None),
      Invocation(Some(<<0>>), Some(LogClause)),
      Invocation(None, Some(Document("Regex", <<"(">>))) }

----------------------------------------------------------------------------
(* The collection configuration. A vector index configuration is modelled  *)
(* by its space and two of its parameters.                                  *)

KnnIndex == {"Hnsw", "Spann"}
HnswSpace == {"L2", "Cosine"}

\* InternalHnswConfiguration::default, InternalSpannConfiguration::default
InternalHnswConfiguration_default ==
    [space |-> "L2", ef_construction |-> 100, ef_search |-> 100]
InternalSpannConfiguration_default ==
    [space |-> "L2", search_nprobe |-> 64, ef_search |-> 200]

\* VectorIndexConfiguration::Hnsw, VectorIndexConfiguration::Spann
Hnsw(config) == [kind |-> "Hnsw", config |-> config]
Spann(config) == [kind |-> "Spann", config |-> config]

\* From<HnswConfiguration> for InternalHnswConfiguration: a parameter that is
\* not set takes its default.
InternalHnswConfiguration_from(hnsw) ==
    [space |-> unwrap_or(hnsw.space, InternalHnswConfiguration_default.space),
     ef_construction |->
         unwrap_or(hnsw.ef_construction, InternalHnswConfiguration_default.ef_construction),
     ef_search |-> unwrap_or(hnsw.ef_search, InternalHnswConfiguration_default.ef_search)]

\* From<SpannConfiguration> for InternalSpannConfiguration
InternalSpannConfiguration_from(spann) ==
    [space |-> unwrap_or(spann.space, InternalSpannConfiguration_default.space),
     search_nprobe |->
         unwrap_or(spann.search_nprobe, InternalSpannConfiguration_default.search_nprobe),
     ef_search |-> unwrap_or(spann.ef_search, InternalSpannConfiguration_default.ef_search)]

\* From<InternalHnswConfiguration> for HnswConfiguration: every parameter set.
HnswConfiguration_from(internal) ==
    [space |-> Some(internal.space),
     ef_construction |-> Some(internal.ef_construction),
     ef_search |-> Some(internal.ef_search)]

\* InternalHnswConfiguration::from_legacy_segment_metadata: the parameters
\* the metadata gives under hnsw:space and hnsw:construction_ef, the default
\* for the others; a space that is no space is an error.
from_legacy_segment_metadata(metadata) ==
    IF metadata = None THEN Ok(InternalHnswConfiguration_default)
    ELSE LET m == unwrap(metadata)
         IN IF is_some(m.space) /\ unwrap(m.space) \notin HnswSpace
            THEN Err("HnswParametersFromSegmentError")
            ELSE Ok([space |-> unwrap_or(m.space, InternalHnswConfiguration_default.space),
                     ef_construction |->
                         unwrap_or(m.construction_ef,
                                   InternalHnswConfiguration_default.ef_construction),
                     ef_search |-> InternalHnswConfiguration_default.ef_search])

\* try_from_config, keeping the kind of the configuration supplied.
try_from_config_keeps_kind(value, default_knn_index, metadata) ==
    CASE is_some(value.hnsw) /\ is_some(value.spann) ->
             Err("MultipleVectorIndexConfigurations")
      [] is_some(value.hnsw) /\ value.spann = None ->
             Ok([vector_index |-> Hnsw(InternalHnswConfiguration_from(unwrap(value.hnsw))),
                 embedding_function |-> value.embedding_function])
      [] value.hnsw = None /\ is_some(value.spann) ->
             Ok([vector_index |-> Spann(InternalSpannConfiguration_from(unwrap(value.spann))),
                 embedding_function |-> value.embedding_function])
      [] OTHER ->
             LET legacy == from_legacy_segment_metadata(metadata)
             IN IF ~legacy.ok THEN Err("HnswParametersFromSegmentError")
                ELSE Ok([vector_index |-> Hnsw(legacy.val),
                         embedding_function |-> value.embedding_function])

\* try_from_config, inheriting ef_search with the space when the kinds differ.
try_from_config_inherits_ef_search(value, default_knn_index, metadata) ==
    LET neither == value.hnsw = None /\ value.spann = None
        hnsw_config_from_metadata == from_legacy_segment_metadata(metadata)
        hnsw == IF neither
                THEN Some(HnswConfiguration_from(hnsw_config_from_metadata.val))
                ELSE value.hnsw
        spann == value.spann
    IN IF neither /\ ~hnsw_config_from_metadata.ok
       THEN Err("HnswParametersFromSegmentError")
       ELSE CASE is_some(hnsw) /\ is_some(spann) ->
                     Err("MultipleVectorIndexConfigurations")
              [] is_some(hnsw) /\ spann = None ->
                     IF default_knn_index = "Spann"
                     THEN Ok([vector_index |->
                                  Spann([space |-> unwrap_or(unwrap(hnsw).space,
                                                       InternalSpannConfiguration_default.space),
                                         search_nprobe |->
                                             InternalSpannConfiguration_default.search_nprobe,
                                         ef_search |-> unwrap_or(unwrap(hnsw).ef_search,
                                                       InternalSpannConfiguration_default.ef_search)]),
                              embedding_function |-> value.embedding_function])
                     ELSE Ok([vector_index |->
                                  Hnsw(InternalHnswConfiguration_from(unwrap(hnsw))),
                              embedding_function |-> value.embedding_function])
              [] OTHER ->
                     IF default_knn_index = "Hnsw"
                     THEN Ok([vector_index |->
                                  Hnsw([space |-> unwrap_or(unwrap(spann).space,
                                                      InternalHnswConfiguration_default.space),
                                        ef_construction |->
                                            InternalHnswConfiguration_default.ef_construction,
                                        ef_search |-> unwrap_or(unwrap(spann).ef_search,
                                                      InternalHnswConfiguration_default.ef_search)]),
                              embedding_function |-> value.embedding_function])
                     ELSE Ok([vector_index |->
                                  Spann(InternalSpannConfiguration_from(unwrap(spann))),
                              embedding_function |-> value.embedding_function])

\* InternalCollectionConfiguration::try_from_config
try_from_config(value, default_knn_index, metadata) ==
    LET neither == value.hnsw = None /\ value.spann = None
        hnsw_config_from_metadata == from_legacy_segment_metadata(metadata)
        hnsw == IF neither
                THEN Some(HnswConfiguration_from(hnsw_config_from_metadata.val))
                ELSE value.hnsw
        spann == value.spann
    IN IF neither /\ ~hnsw_config_from_metadata.ok
       THEN Err("HnswParametersFromSegmentError")
       ELSE CASE is_some(hnsw) /\ is_some(spann) ->
                     Err("MultipleVectorIndexConfigurations")
              [] is_some(hnsw) /\ spann = None ->
                     IF default_knn_index = "Spann"
                     THEN Ok([vector_index |->
                                  Spann(IF is_some(unwrap(hnsw).space)
                                        THEN [InternalSpannConfiguration_default
                                                EXCEPT !.space = unwrap(unwrap(hnsw).space)]
                                        ELSE InternalSpannConfiguration_default),
                              embedding_function |-> value.embedding_function])
                     ELSE Ok([vector_index |->
                                  Hnsw(InternalHnswConfiguration_from(unwrap(hnsw))),
                              embedding_function |-> value.embedding_function])
              [] hnsw = None /\ is_some(spann) ->
                     IF default_knn_index = "Hnsw"
                     THEN Ok([vector_index |->
                                  Hnsw(IF is_some(unwrap(spann).space)
                                       THEN [InternalHnswConfiguration_default
                                               EXCEPT !.space = unwrap(unwrap(spann).space)]
                                       ELSE InternalHnswConfiguration_default),
                              embedding_function |-> value.embedding_function])
                     ELSE Ok([vector_index |->
                                  Spann(InternalSpannConfiguration_from(unwrap(spann))),
                              embedding_function |-> value.embedding_function])
              [] hnsw = None /\ spann = None ->
                     Ok([vector_index |->
                             IF default_knn_index = "Hnsw"
                             THEN Hnsw(InternalHnswConfiguration_default)
                             ELSE Spann(InternalSpannConfiguration_default),
                         embedding_function |-> value.embedding_function])

\* get_hnsw_config, get_spann_config
get_hnsw_config(self) ==
    IF self.vector_index.kind = "Hnsw" THEN Some(self.vector_index.config) ELSE None
get_spann_config(self) ==
    IF self.vector_index.kind = "Spann" THEN Some(self.vector_index.config) ELSE None

\* InternalCollectionConfiguration::get_hnsw_config_from_legacy_metadata
get_hnsw_config_from_legacy_metadata(self, metadata) ==
    IF is_some(get_hnsw_config(self))
    THEN LET config == unwrap(get_hnsw_config(self))
             config_from_metadata == from_legacy_segment_metadata(metadata)
         IN IF ~config_from_metadata.ok THEN Err(config_from_metadata.err)
            ELSE IF /\ config = InternalHnswConfiguration_default
                    /\ config # config_from_metadata.val
                 THEN Ok(Some(config_from_metadata.val))
                 ELSE Ok(Some(config))
    ELSE Ok(None)

\* InternalCollectionConfiguration::get_hnsw_config_with_legacy_fallback
get_hnsw_config_with_legacy_fallback(self, seg) ==
    get_hnsw_config_from_legacy_metadata(self, seg.metadata)

\* UpdateVectorIndexConfiguration::Hnsw, UpdateVectorIndexConfiguration::Spann
UpdateHnsw(hnsw_config) == [kind |-> "Hnsw", config |-> hnsw_config]
UpdateSpann(spann_config) == [kind |-> "Spann", config |-> spann_config]

\* update, an update of the other kind replacing the index by the default of
\* its kind.
update_converts_kind(self, update_configuration) ==
    LET vector_index ==
            IF update_configuration.vector_index = None THEN self.vector_index
            ELSE IF unwrap(update_configuration.vector_index).kind = "Hnsw"
                 THEN Hnsw(InternalHnswConfiguration_default)
                 ELSE Spann(InternalSpannConfiguration_default)
    IN [vector_index |-> vector_index,
        embedding_function |->
            IF is_some(update_configuration.embedding_function)
            THEN update_configuration.embedding_function
            ELSE self.embedding_function]

\* InternalCollectionConfiguration::update
update(self, update_configuration) ==
    LET current_config == self.vector_index.config
        vector_index ==
            IF update_configuration.vector_index = None THEN self.vector_index
            ELSE LET vector_index_update == unwrap(update_configuration.vector_index)
                 IN IF vector_index_update.kind = "Hnsw"
                    THEN IF /\ self.vector_index.kind = "Hnsw"
                            /\ is_some(vector_index_update.config)
                         THEN LET update_config == unwrap(vector_index_update.config)
                              IN Hnsw([current_config EXCEPT
                                         !.ef_search = unwrap_or(update_config.ef_search, @)])
                         ELSE self.vector_index
                    ELSE IF /\ self.vector_index.kind = "Spann"
                            /\ is_some(vector_index_update.config)
                         THEN LET update_config == unwrap(vector_index_update.config)
                              IN Spann([current_config EXCEPT
                                          !.search_nprobe =
                                              unwrap_or(update_config.search_nprobe, @),
                                          !.ef_search = unwrap_or(update_config.ef_search, @)])
                         ELSE self.vector_index
    IN [vector_index |-> vector_index,
        embedding_function |->
            IF is_some(update_configuration.embedding_function)
            THEN update_configuration.embedding_function
            ELSE self.embedding_function]

\* The configurations a caller can supply.
OptionOf(S) == {None} \cup { Some(x) : x \in S }
HnswConfigurations ==
    [space : OptionOf(HnswSpace), ef_construction : OptionOf({100, 7}),
     ef_search : OptionOf({10})]
SpannConfigurations ==
    [space : OptionOf(HnswSpace), search_nprobe : OptionOf({64, 1}),
     ef_search : OptionOf({10})]
EmbeddingFunctionConfigurations == {"Legacy", "Known"}
CollectionConfigurations ==
    [hnsw : OptionOf(HnswConfigurations), spann : OptionOf(SpannConfigurations),
     embedding_function : OptionOf(EmbeddingFunctionConfigurations)]

\* The legacy metadata of a collection: none, or the values under hnsw:space
\* and hnsw:construction_ef, each optional.
LegacyMetadata ==
    OptionOf([space : OptionOf(HnswSpace \cup {"bogus"}), construction_ef : OptionOf({1})])

\* The configurations a collection can be stored with.
InternalHnswConfigurations ==
    [space : HnswSpace, ef_construction : {100, 7}, ef_search : {100, 10}]
InternalSpannConfigurations ==
    [space : HnswSpace, search_nprobe : {64, 1}, ef_search : {200, 10}]
InternalCollectionConfigurations ==
    [vector_index : { Hnsw(config) : config \in InternalHnswConfigurations }
                        \cup { Spann(config) : config \in InternalSpannConfigurations },
     embedding_function : OptionOf(EmbeddingFunctionConfigurations)]

\* The segments of a collection, by their legacy metadata.
ConfiguredSegments == [metadata : LegacyMetadata]

\* The updates of a configuration.
UpdateHnswConfigurations == [ef_search : OptionOf({10, 20})]
UpdateSpannConfigurations ==
    [search_nprobe : OptionOf({1}), ef_search : OptionOf({10, 20})]
InternalUpdateCollectionConfigurations ==
    [vector_index :
         OptionOf({ UpdateHnsw(config) : config \in OptionOf(UpdateHnswConfigurations) }
                      \cup { UpdateSpann(config) :
                               config \in OptionOf(UpdateSpannConfigurations) }),
     embedding_function : OptionOf(EmbeddingFunctionConfigurations)]

\* The configuration of the states no configuration is built in.
NoConfiguration ==
    [value |-> [hnsw |-> None, spann |-> None, embedding_function |-> None],
     default_knn_index |-> "Hnsw", metadata |-> None]

----------------------------------------------------------------------------
(* The state machine: an operator is constructed over a segment and a log, *)
(* and run.                                                                 *)

\* Any configuration, with either default index and any legacy metadata; no
\* filter is run.
InitConfig ==
    /\ configuration \in
           [value : CollectionConfigurations,
            default_knn_index : KnnIndex,
            metadata : LegacyMetadata]
    /\ internal_configuration = None
    /\ legacy_fallback = None
    /\ applied_update = None
    /\ invocations = <<>>
    /\ segment = [initialized |-> FALSE, recs |-> <<>>, readers |-> {},
                  creation_error |-> FALSE, read_error |-> FALSE,
                  metadata_error |-> FALSE]
    /\ logs = <<>>
    /\ query_ids = None
    /\ where_clause = None
    /\ pc = "idle"
    /\ user_allowed = None
    /\ where_evals = [log |-> None, compact |-> None]
    /\ output = None

\* Any configuration as stored; none is built and no filter is run.
InitStored ==
    /\ internal_configuration \in { Some(Ok(self)) : self \in InternalCollectionConfigurations }
    /\ configuration = NoConfiguration
    /\ legacy_fallback = None
    /\ applied_update = None
    /\ invocations = <<>>
    /\ segment = [initialized |-> FALSE, recs |-> <<>>, readers |-> {},
                  creation_error |-> FALSE, read_error |-> FALSE,
                  metadata_error |-> FALSE]
    /\ logs = <<>>
    /\ query_ids = None
    /\ where_clause = None
    /\ pc = "idle"
    /\ user_allowed = None
    /\ where_evals = [log |-> None, compact |-> None]
    /\ output = None

\* Any whitelist, with no clause or one of RunClauses, over any segment and
\* any log.
Init ==
    /\ segment \in Segments(RunKinds)
    /\ logs \in MaterializedLogs(segment, RunKinds, MaterializedLogOperations)
    /\ query_ids \in QueryIdOptions
    /\ where_clause \in {None} \cup { Some(w) : w \in RunClauses }
    /\ pc = "ready"
    /\ user_allowed = None
    /\ where_evals = [log |-> None, compact |-> None]
    /\ output = None
    /\ configuration = NoConfiguration
    /\ internal_configuration = None
    /\ legacy_fallback = None
    /\ applied_update = None
    /\ invocations = <<>>

\* Any clause, with no whitelist, over any segment and a log that creates
\* records.
InitEval ==
    /\ segment \in Segments(RecordKinds)
    /\ logs \in MaterializedLogs(segment, RecordKinds, {"AddNew"})
    /\ query_ids = None
    /\ where_clause \in { Some(w) : w \in WhereClauses }
    /\ pc = "ready"
    /\ user_allowed = None
    /\ where_evals = [log |-> None, compact |-> None]
    /\ output = None
    /\ configuration = NoConfiguration
    /\ internal_configuration = None
    /\ legacy_fallback = None
    /\ applied_update = None
    /\ invocations = <<>>

\* Any of SegmentClauses or none, with any whitelist, over any segment as
\* found and a log that creates records.
InitSegment ==
    /\ segment \in SegmentsAsFound(RunKinds)
    /\ logs \in MaterializedLogs(segment, RunKinds, {"AddNew"})
    /\ query_ids \in QueryIdOptions
    /\ where_clause \in {None} \cup { Some(w) : w \in SegmentClauses }
    /\ pc = "ready"
    /\ user_allowed = None
    /\ where_evals = [log |-> None, compact |-> None]
    /\ output = None
    /\ configuration = NoConfiguration
    /\ internal_configuration = None
    /\ legacy_fallback = None
    /\ applied_update = None
    /\ invocations = <<>>

\* A comparison, with no whitelist, over a segment and a log that hold the
\* same records.
InitCompare ==
    /\ segment \in Segments(CompareKinds)
    /\ logs \in OverwritingLogs(segment, CompareKinds)
    /\ query_ids = None
    /\ where_clause \in { Some(w) : w \in CompareClauses }
    /\ pc = "ready"
    /\ user_allowed = None
    /\ where_evals = [log |-> None, compact |-> None]
    /\ output = None
    /\ configuration = NoConfiguration
    /\ internal_configuration = None
    /\ legacy_fallback = None
    /\ applied_update = None
    /\ invocations = <<>>

\* A regex clause, with no whitelist or a whitelist of one id, over a segment
\* of the regex runs and an empty log.
InitRegex ==
    /\ segment \in RegexSegments
    /\ logs = <<>>
    /\ query_ids \in {None, Some(<<0>>)}
    /\ where_clause \in { Some(w) : w \in RegexClauses }
    /\ pc = "ready"
    /\ user_allowed = None
    /\ where_evals = [log |-> None, compact |-> None]
    /\ output = None
    /\ configuration = NoConfiguration
    /\ internal_configuration = None
    /\ legacy_fallback = None
    /\ applied_update = None
    /\ invocations = <<>>

\* A clause, with no whitelist, over a segment and a log some entries of which
\* may fail to hydrate.
InitLog ==
    /\ segment \in LogSegments
    /\ logs \in HydratableLogs(segment)
    /\ query_ids = None
    /\ where_clause = Some(LogClause)
    /\ pc = "ready"
    /\ user_allowed = None
    /\ where_evals = [log |-> None, compact |-> None]
    /\ output = None
    /\ configuration = NoConfiguration
    /\ internal_configuration = None
    /\ legacy_fallback = None
    /\ applied_update = None
    /\ invocations = <<>>

\* Up to MaxInvocations invocations, none started, over any segment and log of
\* the concurrent runs.
InitConcurrent ==
    /\ segment \in Segments(LogSegmentKinds)
    /\ logs \in ConcurrentLogs(segment)
    /\ invocations \in UNION { [1..n -> Invocations] : n \in 1..MaxInvocations }
    /\ query_ids = None
    /\ where_clause = None
    /\ pc = "idle"
    /\ user_allowed = None
    /\ where_evals = [log |-> None, compact |-> None]
    /\ output = None
    /\ configuration = NoConfiguration
    /\ internal_configuration = None
    /\ legacy_fallback = None
    /\ applied_update = None

Run ==
    /\ pc = "ready"
    /\ pc' = "done"
    /\ user_allowed' =
           IF run_setup_error(segment, logs, query_ids) = None
           THEN Some(user_allowed_offset_ids(query_ids, MetadataLogReader_create(logs),
                                             RecordSegmentReader_from_segment(segment)))
           ELSE None
    /\ where_evals' = run_evals(segment, logs, query_ids, where_clause)
    /\ output' = Some(FilterOperator_run(segment, logs, query_ids, where_clause))
    /\ UNCHANGED <<segment, logs, query_ids, where_clause,
                   configuration, internal_configuration, legacy_fallback, applied_update,
                   invocations>>

\* InternalCollectionConfiguration::try_from_config is called on the
\* configuration supplied.
TryFromConfig ==
    /\ internal_configuration = None
    /\ internal_configuration' =
           Some(try_from_config(configuration.value, configuration.default_knn_index,
                                configuration.metadata))
    /\ UNCHANGED <<segment, logs, query_ids, where_clause, pc, user_allowed,
                   where_evals, output, configuration, legacy_fallback, applied_update,
                   invocations>>

\* get_hnsw_config_with_legacy_fallback is called on the configuration
\* stored, for a segment of the collection.
GetHnswConfigWithLegacyFallback ==
    /\ is_some(internal_configuration) /\ unwrap(internal_configuration).ok
    /\ \E seg \in ConfiguredSegments :
           legacy_fallback' =
               Some([self |-> unwrap(internal_configuration).val,
                     segment |-> seg,
                     result |-> get_hnsw_config_with_legacy_fallback(
                                    unwrap(internal_configuration).val, seg)])
    /\ UNCHANGED <<segment, logs, query_ids, where_clause, pc, user_allowed, where_evals,
                   output, configuration, internal_configuration, applied_update, invocations>>

\* update is called on the configuration stored: with any update the first
\* time, with the same update again after.
Update ==
    /\ is_some(internal_configuration) /\ unwrap(internal_configuration).ok
    /\ \E update_configuration \in InternalUpdateCollectionConfigurations :
           /\ is_some(applied_update) =>
                  /\ update_configuration = unwrap(applied_update).configuration
                  /\ unwrap(applied_update).times < MaxUpdates
           /\ internal_configuration' =
                  Some(Ok(update(unwrap(internal_configuration).val, update_configuration)))
           /\ applied_update' =
                  Some([configuration |-> update_configuration,
                        before |-> unwrap(internal_configuration).val,
                        times |-> IF is_some(applied_update)
                                  THEN unwrap(applied_update).times + 1 ELSE 1])
    /\ UNCHANGED <<segment, logs, query_ids, where_clause, pc, user_allowed, where_evals,
                   output, configuration, legacy_fallback, invocations>>

\* A step of an invocation leaves the others, the segment and the log as they
\* are.
Step(i, inv) ==
    /\ invocations' = [invocations EXCEPT ![i] = inv]
    /\ UNCHANGED <<segment, logs, query_ids, where_clause, pc, user_allowed, where_evals,
                   output, configuration, internal_configuration, legacy_fallback,
                   applied_update>>

OpenReaders ==
    \E i \in DOMAIN invocations :
        /\ invocations[i].pc = "ready"
        /\ Step(i, open_readers(invocations, i, segment, logs))

ResolveWhitelist ==
    \E i \in DOMAIN invocations :
        /\ invocations[i].pc = "opened"
        /\ Step(i, resolve_whitelist(invocations, i, segment, logs))

EvalLog ==
    \E i \in DOMAIN invocations :
        /\ invocations[i].pc = "allowed"
        /\ Step(i, eval_log(invocations, i, segment, logs))

EvalCompact ==
    \E i \in DOMAIN invocations :
        /\ invocations[i].pc = "log_done"
        /\ Step(i, eval_compact(invocations, i, segment, logs))

Next == Run

NextConfig == TryFromConfig

NextConcurrent == OpenReaders \/ ResolveWhitelist \/ EvalLog \/ EvalCompact

NextStored == GetHnswConfigWithLegacyFallback \/ Update

Spec == Init /\ [][Next]_vars

SpecEval == InitEval /\ [][Next]_vars

SpecSegment == InitSegment /\ [][Next]_vars

SpecCompare == InitCompare /\ [][Next]_vars

SpecRegex == InitRegex /\ [][Next]_vars

SpecLog == InitLog /\ [][Next]_vars

SpecConcurrent == InitConcurrent /\ [][NextConcurrent]_vars

SpecConfig == InitConfig /\ [][NextConfig]_vars

SpecStored == InitStored /\ [][NextStored]_vars

----------------------------------------------------------------------------
(* What the claims are stated over: the inputs of the run and its outcome. *)

Done == pc = "done"
Succeeded == Done /\ unwrap(output).ok
Out == unwrap(output).val

LogEntries == { logs[i] : i \in 1..Len(logs) }
\* The shadowed set of the log: the offsets updated, overwritten or deleted.
Shadowed ==
    { e.offset_id : e \in { x \in LogEntries :
        x.op \in {"UpdateExisting", "OverwriteExisting", "DeleteExisting"} } }
\* The live records of the log.
LiveEntries == { e \in LogEntries : e.op # "DeleteExisting" }
LiveOffsets == { e.offset_id : e \in LiveEntries }
SegmentOffsets == DOMAIN segment.recs

\* The user ids the whitelist names.
ListedIds == { unwrap(query_ids)[i] : i \in 1..Len(unwrap(query_ids)) }
\* The offsets each side holds under a listed user id.
ListedLogOffsets == { e.offset_id : e \in { x \in LiveEntries : x.user_id \in ListedIds } }
ListedSegmentOffsets == { o \in SegmentOffsets : segment.recs[o].user_id \in ListedIds }

----------------------------------------------------------------------------
\* C1: after every run that succeeds, no offset of the log's shadowed set
\* (updated, overwritten or deleted by the log) is a member of
\* compact_offset_ids, whatever the clause and the whitelist.
C1_ShadowedNotInCompact ==
    Succeeded => \A o \in Shadowed : ~Member(o, Out.compact_offset_ids)

\* A run with a clause and a whitelist succeeded over a log that shadows an
\* offset the whitelist names.
C1_Witness ==
    /\ Succeeded
    /\ is_some(where_clause) /\ is_some(query_ids)
    /\ Shadowed \cap ListedSegmentOffsets # {}

\* C2: after every run that succeeds, every offset that is a live record of
\* the materialized log (AddNew and Initial entries included) is excluded from
\* compact_offset_ids.
C2_LiveLogOffsetsExcluded ==
    Succeeded => \A o \in LiveOffsets : ~Member(o, Out.compact_offset_ids)

\* An offset is counted on the log side when it is a live log record and a
\* member of log_offset_ids, on the segment side when the segment holds it
\* and it is a member of compact_offset_ids.
CountedOnLogSide(o) == o \in LiveOffsets /\ Member(o, Out.log_offset_ids)
CountedOnSegmentSide(o) == o \in SegmentOffsets /\ Member(o, Out.compact_offset_ids)

\* C3: after every run that succeeds (the offsets the log creates not being in
\* the segment), no offset is counted on both sides, and no offset the log
\* holds an entry for is counted on the segment side.
C3_NoDoubleCountLogWins ==
    Succeeded =>
        /\ \A o \in Offsets : ~(CountedOnLogSide(o) /\ CountedOnSegmentSide(o))
        /\ \A e \in LogEntries : ~CountedOnSegmentSide(e.offset_id)

\* The clause's result on the segment provider: the universe when no clause
\* is set.
RSeg ==
    IF is_some(where_clause) THEN unwrap(where_evals.compact).val ELSE Exclude({})
\* The whitelist mask of the segment side: the universe when no whitelist is
\* set or the record reader is absent.
AllowSeg ==
    IF is_some(query_ids) /\ segment.initialized
    THEN Include(ListedSegmentOffsets) ELSE Exclude({})

----------------------------------------------------------------------------
(* The evaluator's claims are stated over the two evaluations of the run's  *)
(* clause, one a provider.                                                  *)

Clause == unwrap(where_clause)
LogProviderOfRun == LogProvider(MetadataLogReader_create(logs))
CompactProviderOfRun ==
    CompactDataProvider(MetadataSegmentReader_from_segment(segment),
                        RecordSegmentReader_from_segment(segment))
Providers == {"log", "compact"}
ProviderOfRun(side) == IF side = "log" THEN LogProviderOfRun ELSE CompactProviderOfRun
\* The evaluation of the run's clause on a side.
EvalOfRun(side) == unwrap(where_evals[side])

\* The records a side holds: offset id -> [meta, doc].
RecordsOf(side) ==
    IF side = "log"
    THEN [o \in LiveOffsets |-> CHOOSE e \in LiveEntries : e.offset_id = o]
    ELSE segment.recs
\* The offsets of a side whose record holds val under key.
Holding(side, key, val) ==
    { o \in DOMAIN RecordsOf(side) :
        key \in DOMAIN RecordsOf(side)[o].meta /\ RecordsOf(side)[o].meta[key] = val }

IsPrimitiveClause(op) ==
    /\ Clause.kind = "Metadata"
    /\ Clause.comparison.kind = "Primitive"
    /\ Clause.comparison.op = op
IsSetClause(op) ==
    /\ Clause.kind = "Metadata"
    /\ Clause.comparison.kind = "Set"
    /\ Clause.comparison.op = op

\* C6: on every provider, Primitive(NotEqual, v) evaluates to
\* Exclude(compare(key, v, Equal)), the complement of the result of
\* Primitive(Equal, v) on that provider: the excluded offsets are those whose
\* record holds v under the key, so an offset whose record lacks the key or
\* holds a value of another variant is a member. The one provider call made
\* is an Equal lookup, never a NotEqual one.
C6_NotEqualIsComplement ==
    (Done /\ IsPrimitiveClause("NotEqual")) =>
        \A side \in Providers :
            LET key == Clause.key
                val == Clause.comparison.value
                equal == Where_eval(Metadata(key, Primitive("Equal", val)),
                                    ProviderOfRun(side))
            IN /\ EvalOfRun(side) =
                      Evaluated(Exclude(Holding(side, key, val)),
                                <<MetadataCall(key, val, "Equal")>>)
               /\ equal.ok /\ equal.val = Include(EvalOfRun(side).val.bm)
               /\ \A o \in DOMAIN RecordsOf(side) :
                      (\/ key \notin DOMAIN RecordsOf(side)[o].meta
                       \/ RecordsOf(side)[o].meta[key].t # val.t)
                          => Member(o, EvalOfRun(side).val)

\* A NotEqual clause was evaluated over a side that holds a record with the
\* value and a record without the key or with a value of another variant.
C6_Witness ==
    /\ Done /\ IsPrimitiveClause("NotEqual")
    /\ \E side \in Providers :
          /\ Holding(side, Clause.key, Clause.comparison.value) # {}
          /\ \E o \in DOMAIN RecordsOf(side) :
                 \/ Clause.key \notin DOMAIN RecordsOf(side)[o].meta
                 \/ RecordsOf(side)[o].meta[Clause.key].t # Clause.comparison.value.t

\* The values of a Set comparison, as metadata values.
SetValues == { [t |-> Clause.comparison.t, v |-> Clause.comparison.vec[i]] :
                 i \in 1..Len(Clause.comparison.vec) }
\* The union over the values of the offsets of a side holding the value.
HoldingAny(side) == UNION { Holding(side, Clause.key, val) : val \in SetValues }
\* One Equal lookup a value, in the order of the list.
SetCalls == [i \in 1..Len(Clause.comparison.vec) |->
               MetadataCall(Clause.key,
                            [t |-> Clause.comparison.t, v |-> Clause.comparison.vec[i]],
                            "Equal")]

\* C7: on every provider, Set(In, [v1..vn]) evaluates to Include(the union
\* over i of compare(key, vi, Equal)); for the empty list it is Include({})
\* and no provider call is made.
C7_InIsUnion ==
    (Done /\ IsSetClause("In")) =>
        \A side \in Providers :
            /\ EvalOfRun(side) = Evaluated(Include(HoldingAny(side)), SetCalls)
            /\ Clause.comparison.vec = <<>> =>
                   EvalOfRun(side) = Evaluated(Include({}), <<>>)

\* An In clause of two different values was evaluated over a side that holds
\* a record for each of them.
C7_Witness ==
    /\ Done /\ IsSetClause("In")
    /\ Len(Clause.comparison.vec) = 2
    /\ \E side \in Providers :
           Cardinality(EvalOfRun(side).val.bm) = 2

\* C8: on every provider, Set(NotIn, [v1..vn]) evaluates to Exclude(the union
\* over i of compare(key, vi, Equal)), the complement of Set(In, [v1..vn]) on
\* that provider; for the empty list it is Exclude({}).
C8_NotInIsComplementOfIn ==
    (Done /\ IsSetClause("NotIn")) =>
        \A side \in Providers :
            LET in == Where_eval(Metadata(Clause.key,
                                          SetComparison("In", Clause.comparison.t,
                                                        Clause.comparison.vec)),
                                 ProviderOfRun(side))
            IN /\ EvalOfRun(side).ok
               /\ EvalOfRun(side).val = Exclude(HoldingAny(side))
               /\ in.ok /\ in.val = Include(EvalOfRun(side).val.bm)
               /\ Clause.comparison.vec = <<>> => EvalOfRun(side).val = Exclude({})

\* A NotIn clause of two different values was evaluated over a side that
\* holds a record for each of them.
C8_Witness ==
    /\ Done /\ IsSetClause("NotIn")
    /\ Len(Clause.comparison.vec) = 2
    /\ \E side \in Providers :
           Cardinality(EvalOfRun(side).val.bm) = 2

\* The fold of the results with & from the universe (And) or with | from the
\* empty set (Or).
RECURSIVE FoldOf(_, _, _, _)
FoldOf(operator, results, i, acc) ==
    IF i > Len(results) THEN acc
    ELSE FoldOf(operator, results, i + 1,
                IF operator = "And" THEN BitAnd(acc, results[i])
                ELSE BitOr(acc, results[i]))

\* The results of the children of a composite on a provider.
ChildEvals(w, provider) ==
    [i \in 1..Len(w.children) |-> Where_eval(w.children[i], provider)]

\* C9: on every provider, a Composite whose children evaluate is the & fold
\* of their results from Exclude({}) when it is an And, the | fold from
\* Include({}) when it is an Or: an And with no children is the universe, an
\* Or with no children is empty, and And[P] and Or[P] are the result of P
\* itself, form and bitmap, also when P is a composite of one child.
C9_CompositeIsFold ==
    (Done /\ Clause.kind = "Composite") =>
        \A side \in Providers :
            (is_some(where_evals[side]) /\ EvalOfRun(side).ok) =>
                LET children == ChildEvals(Clause, ProviderOfRun(side))
                    results == [i \in 1..Len(children) |-> children[i].val]
                    result == EvalOfRun(side).val
                IN /\ \A i \in 1..Len(children) : children[i].ok
                   /\ result = FoldOf(Clause.operator, results, 1,
                                      IF Clause.operator = "And"
                                      THEN Exclude({}) ELSE Include({}))
                   /\ Len(children) = 0 =>
                          result = IF Clause.operator = "And"
                                   THEN Exclude({}) ELSE Include({})
                   /\ Len(children) = 1 => result = results[1]
                   /\ (/\ Len(children) = 1
                       /\ Clause.children[1].kind = "Composite"
                       /\ Len(Clause.children[1].children) = 1) =>
                          result = Where_eval(Clause.children[1].children[1],
                                              ProviderOfRun(side)).val
                   /\ \A o \in Offsets :
                          Member(o, result) <=>
                              IF Clause.operator = "And"
                              THEN \A i \in 1..Len(results) : Member(o, results[i])
                              ELSE \E i \in 1..Len(results) : Member(o, results[i])

\* A composite of one composite of one clause was evaluated on both sides,
\* and the clause selects some record and not every record.
C9_Witness ==
    /\ Done /\ Clause.kind = "Composite"
    /\ Len(Clause.children) = 1
    /\ Clause.children[1].kind = "Composite"
    /\ Len(Clause.children[1].children) = 1
    /\ Clause.operator # Clause.children[1].operator
    /\ \A side \in Providers : is_some(where_evals[side]) /\ EvalOfRun(side).ok
    /\ \E side \in Providers :
           /\ EvalOfRun(side).val.bm # {}
           /\ EvalOfRun(side).val.bm # DOMAIN RecordsOf(side)

\* The offsets of a side whose record has no document.
WithoutDocument(side) ==
    { o \in DOMAIN RecordsOf(side) : RecordsOf(side)[o].doc = None }

\* The evaluation of a document clause of the run's pattern on a side.
DocumentEval(operator, side) ==
    Where_eval(Document(operator, Clause.pattern), ProviderOfRun(side))

\* C10: on every provider, Contains is Include(contains(pattern)),
\* NotContains is Exclude(contains(pattern)), Regex is Include(regex(pattern))
\* and NotRegex is Exclude(regex(pattern)); a negated operator is the
\* complement of its positive form, and a record with no document is never
\* selected by Contains or Regex and always selected by NotContains or
\* NotRegex.
C10_DocumentOperators ==
    (Done /\ Clause.kind = "Document") =>
        \A side \in Providers :
            (is_some(where_evals[side]) /\ EvalOfRun(side).ok) =>
                LET result == EvalOfRun(side).val
                    contains == filter_by_document_contains(ProviderOfRun(side),
                                                            Clause.pattern)
                    regex == filter_by_document_regex(ProviderOfRun(side),
                                                      Clause.pattern)
                IN /\ Clause.operator = "Contains" => result = Include(contains.val)
                   /\ Clause.operator = "NotContains" => result = Exclude(contains.val)
                   /\ Clause.operator = "Regex" => result = Include(regex.val)
                   /\ Clause.operator = "NotRegex" => result = Exclude(regex.val)
                   /\ Clause.operator \in {"Contains", "NotContains"} =>
                          /\ DocumentEval("Contains", side).val.sign = "Include"
                          /\ DocumentEval("NotContains", side).val.sign = "Exclude"
                          /\ DocumentEval("NotContains", side).val.bm
                                 = DocumentEval("Contains", side).val.bm
                   /\ Clause.operator \in {"Regex", "NotRegex"} =>
                          /\ DocumentEval("Regex", side).val.sign = "Include"
                          /\ DocumentEval("NotRegex", side).val.sign = "Exclude"
                          /\ DocumentEval("NotRegex", side).val.bm
                                 = DocumentEval("Regex", side).val.bm
                   /\ \A o \in WithoutDocument(side) :
                          Member(o, result)
                              <=> Clause.operator \in {"NotContains", "NotRegex"}

----------------------------------------------------------------------------
\* The comparison operators a provider is called with.
CompareOperators ==
    {"Equal", "GreaterThan", "GreaterThanOrEqual", "LessThan", "LessThanOrEqual"}

\* The offsets of a side whose record holds, under key, a value of the variant
\* of val.
HoldingVariant(side, key, val) ==
    { o \in DOMAIN RecordsOf(side) :
        /\ key \in DOMAIN RecordsOf(side)[o].meta
        /\ RecordsOf(side)[o].meta[key].t = val.t }

\* C11: on the log provider, a comparison of a key with a value by =, >, >=,
\* < or <= returns only offsets whose record holds, under the key, a value of
\* the variant of the query value.
C11_LogCompareSameVariant ==
    (Done /\ \E op \in CompareOperators : IsPrimitiveClause(op)) =>
        /\ EvalOfRun("log").ok
        /\ EvalOfRun("log").val.bm \subseteq
               HoldingVariant("log", Clause.key, Clause.comparison.value)

\* The offsets of a side whose value under key satisfies op relative to val:
\* a value of val's variant, compared by payload.
Satisfying(side, key, val, op) ==
    { o \in HoldingVariant(side, key, val) :
        satisfies(RecordsOf(side)[o].meta[key].v, op, val.v) }

\* C12: over a segment and a log that hold the same records, a comparison of
\* a key with a value by =, >, >=, < or <= returns the same offsets on the
\* segment provider and on the log provider, those whose value for the key
\* satisfies the operator relative to the query value, for every query value:
\* integers below zero and above the range of 32 bits included.
C12_ProvidersAgreeOnCompare ==
    (/\ Done /\ \E op \in CompareOperators : IsPrimitiveClause(op)
     /\ DOMAIN RecordsOf("log") = SegmentOffsets
     /\ \A o \in SegmentOffsets :
            RecordsOf("log")[o].meta = RecordsOf("compact")[o].meta) =>
        /\ \A side \in Providers : is_some(where_evals[side]) /\ EvalOfRun(side).ok
        /\ EvalOfRun("log").val = EvalOfRun("compact").val
        /\ \A side \in Providers :
               EvalOfRun(side).val.bm =
                   Satisfying(side, Clause.key, Clause.comparison.value,
                              Clause.comparison.op)

----------------------------------------------------------------------------
\* The log view MetadataLogReader::create builds of the log of the run.
LogView == MetadataLogReader_create(logs)

\* The values of a map.
Range(m) == { m[x] : x \in DOMAIN m }

\* C13: after MetadataLogReader::create, updated_offset_ids holds exactly the
\* offsets of the entries whose operation is neither Initial nor AddNew.
C13_ShadowedIsUpdatedOffsets ==
    Succeeded =>
        LogView.updated_offset_ids =
            { e.offset_id : e \in { x \in LogEntries : x.op \notin {"Initial", "AddNew"} } }

\* The run built the view of a log that holds an entry that shadows its
\* offset and an entry that does not.
C13_Witness ==
    /\ Succeeded
    /\ \E e \in LogEntries : e.op \in {"Initial", "AddNew"}
    /\ \E e \in LogEntries : e.op \notin {"Initial", "AddNew"}
    /\ LogView.updated_offset_ids # {}

\* C14 as stated: after MetadataLogReader::create, the keys of document and
\* the values of user_id_to_offset_id are each exactly the offsets of the
\* entries whose operation is not DeleteExisting.
C14_DocumentAndUserIdsAreLive ==
    Succeeded =>
        /\ DOMAIN LogView.document = LiveOffsets
        /\ Range(LogView.user_id_to_offset_id) = LiveOffsets

\* The live entries whose record has a document.
LiveWithDocument == { e \in LiveEntries : is_some(e.doc) }

\* C14 as amended: after MetadataLogReader::create, the values of
\* user_id_to_offset_id are exactly the offsets of the entries whose operation
\* is not DeleteExisting, each under the user id of its entry, and the keys of
\* document are exactly those of them whose record has a document, each
\* mapped to that document.
C14_DocumentsOfLiveWithDocument ==
    Succeeded =>
        /\ Range(LogView.user_id_to_offset_id) = LiveOffsets
        /\ \A e \in LiveEntries : LogView.user_id_to_offset_id[e.user_id] = e.offset_id
        /\ DOMAIN LogView.document = { e.offset_id : e \in LiveWithDocument }
        /\ \A e \in LiveWithDocument : LogView.document[e.offset_id] = unwrap(e.doc)

\* The run built the view of a log that holds a deleted entry and a live
\* entry whose record has no document.
C14_Witness ==
    /\ Succeeded
    /\ \E e \in LogEntries : e.op = "DeleteExisting"
    /\ \E e \in LiveEntries : e.doc = None
    /\ LogView.user_id_to_offset_id # <<>>

----------------------------------------------------------------------------
\* The clause of the run holds a pattern that does not parse.
UnparsableClause ==
    /\ is_some(where_clause)
    /\ Clause.kind = "Document"
    /\ Clause.operator \in {"Regex", "NotRegex"}
    /\ ~regex_parses(Clause.pattern)

\* C15: when opening the record segment reader fails with UninitializedSegment,
\* run goes on with an absent reader and returns an output (unless its clause
\* fails to evaluate); when it fails with another creation error, run returns
\* the RecordReader error, builds no mask, evaluates nothing and returns no
\* output.
C15_UninitializedIsAbsentOtherIsFatal ==
    Done =>
        /\ (~segment.creation_error /\ ~segment.initialized) =>
               /\ is_some(user_allowed)
               /\ unwrap(output).ok <=> ~UnparsableClause
               /\ ~unwrap(output).ok => unwrap(output).err = "Regex"
        /\ segment.creation_error =>
               /\ output = Some(Err("RecordReader"))
               /\ user_allowed = None
               /\ where_evals = [log |-> None, compact |-> None]

\* A run over an uninitialized record segment returned an output, the log
\* holding records and a clause being set.
C15_Witness ==
    /\ Succeeded
    /\ ~segment.initialized /\ ~segment.creation_error
    /\ logs # <<>> /\ is_some(where_clause)
    /\ Out.log_offset_ids.bm # {}

----------------------------------------------------------------------------
\* C17: a Regex or NotRegex clause whose pattern does not parse fails to
\* evaluate with FilterError::Regex, of code InvalidArgument, on the log
\* provider and on the segment provider, whether or not the segment has its
\* full-text index and its record reader; run returns that error and no
\* bitmap.
C17_UnparsablePatternIsRegexError ==
    (Done /\ ~segment.creation_error /\ UnparsableClause) =>
        /\ \A side \in Providers :
               LET eval == Where_eval(Clause, ProviderOfRun(side))
                   regex == filter_by_document_regex(ProviderOfRun(side), Clause.pattern)
               IN /\ ~regex.ok /\ regex.err = "Regex"
                  /\ ~eval.ok /\ eval.err = "Regex"
                  /\ FilterError_code(eval.err) = "InvalidArgument"
        /\ ~EvalOfRun("log").ok /\ EvalOfRun("log").err = "Regex"
        /\ output = Some(Err("Regex"))
        /\ FilterError_code(unwrap(output).err) = "InvalidArgument"

\* A run whose pattern does not parse failed over a segment that holds
\* records and lacks its full-text index.
C17_Witness ==
    /\ Done /\ UnparsableClause
    /\ segment.initialized /\ ~segment.creation_error
    /\ segment.recs # <<>> /\ "full_text" \notin segment.readers
    /\ output = Some(Err("Regex"))

\* The index, or the reader, that the clause of the run needs on the segment
\* provider is absent.
IndexAbsentForClause ==
    CASE Clause.kind = "Metadata" /\ Clause.comparison.kind = "Primitive" ->
             index_reader_of(Clause.comparison.value) \notin segment.readers
      [] Clause.kind = "Metadata" /\ Clause.comparison.kind = "Set" ->
             index_reader_of([t |-> Clause.comparison.t, v |-> 0]) \notin segment.readers
      [] Clause.kind = "Document" /\ Clause.operator \in {"Contains", "NotContains"} ->
             "full_text" \notin segment.readers
      [] Clause.kind = "Document" /\ Clause.operator \in {"Regex", "NotRegex"} ->
             "full_text" \notin segment.readers \/ ~segment.initialized
      [] OTHER -> FALSE

\* The clause of the run is a negated form: NotEqual, NotIn, NotContains,
\* NotRegex.
NegatedClause ==
    \/ IsPrimitiveClause("NotEqual")
    \/ IsSetClause("NotIn")
    \/ Clause.kind = "Document" /\ Clause.operator \in {"NotContains", "NotRegex"}

\* C18: on the segment provider an absent index is no match and no error: a
\* comparison whose typed index is absent, a Contains whose full-text index is
\* absent and a Regex (of a pattern that parses) whose full-text index or
\* record reader is absent return the empty bitmap, so the clause evaluates
\* to Include({}) and its negated form to Exclude({}).
C18_AbsentIndexIsNoMatch ==
    (/\ Done /\ ~segment.creation_error /\ is_some(where_clause)
     /\ ~UnparsableClause /\ IndexAbsentForClause) =>
        /\ is_some(where_evals.compact) /\ EvalOfRun("compact").ok
        /\ EvalOfRun("compact").val =
               IF NegatedClause THEN Exclude({}) ELSE Include({})
        /\ Clause.kind = "Metadata" /\ Clause.comparison.kind = "Primitive" =>
               filter_by_metadata(CompactProviderOfRun, Clause.key,
                                  Clause.comparison.value, "Equal") = Ok({})
        /\ Clause.kind = "Document" =>
               /\ Clause.operator \in {"Contains", "NotContains"} =>
                      filter_by_document_contains(CompactProviderOfRun,
                                                  Clause.pattern) = Ok({})
               /\ Clause.operator \in {"Regex", "NotRegex"} =>
                      filter_by_document_regex(CompactProviderOfRun,
                                               Clause.pattern) = Ok({})
        /\ Succeeded

\* A run with a negated comparison over a segment that holds a record with
\* the value compared and lacks the typed index selected every offset of the
\* segment.
C18_Witness ==
    /\ Succeeded /\ is_some(where_clause) /\ IsPrimitiveClause("NotEqual")
    /\ segment.initialized /\ IndexAbsentForClause
    /\ Holding("compact", Clause.key, Clause.comparison.value) # {}
    /\ query_ids = None
    /\ Out.compact_offset_ids = Exclude({})

----------------------------------------------------------------------------
\* The set a signed bitmap denotes over the universe of the offsets.
SetOf(a) == { o \in Offsets : Member(o, a) }

\* The signed bitmaps a composite combines on a side: the results of its
\* children, the two identities, and its own result.
Operands(side) ==
    { ChildEvals(Clause, ProviderOfRun(side))[i].val : i \in 1..Len(Clause.children) }
        \cup {SignedRoaringBitmap_empty, SignedRoaringBitmap_full, EvalOfRun(side).val}

\* C19: reading Include(B) as B and Exclude(B) as the universe less B, the
\* set of a | b is the union of the sets of a and b, the set of a & b their
\* intersection and the set of the complement the universe less the set; the
\* complement of the complement is the value itself, x | empty = x and
\* x & full = x. So the set of an And is the intersection of the sets of its
\* children and the set of an Or their union.
C19_BitmapOperationsAreSetOperations ==
    (Done /\ Clause.kind = "Composite") =>
        \A side \in Providers :
            (is_some(where_evals[side]) /\ EvalOfRun(side).ok) =>
                /\ \A a, b \in Operands(side) :
                       /\ SetOf(BitOr(a, b)) = SetOf(a) \cup SetOf(b)
                       /\ SetOf(BitAnd(a, b)) = SetOf(a) \cap SetOf(b)
                       /\ SetOf(BitNot(a)) = Offsets \ SetOf(a)
                       /\ BitNot(BitNot(a)) = a
                       /\ BitOr(a, SignedRoaringBitmap_empty) = a
                       /\ BitAnd(a, SignedRoaringBitmap_full) = a
                /\ LET children == ChildEvals(Clause, ProviderOfRun(side))
                   IN SetOf(EvalOfRun(side).val) =
                          IF Clause.operator = "And"
                          THEN { o \in Offsets :
                                   \A i \in 1..Len(children) : o \in SetOf(children[i].val) }
                          ELSE { o \in Offsets :
                                   \E i \in 1..Len(children) : o \in SetOf(children[i].val) }

\* A composite combined an Include and an Exclude, neither denoting the empty
\* set nor the universe.
C19_Witness ==
    /\ Done /\ Clause.kind = "Composite" /\ Len(Clause.children) = 2
    /\ \E side \in Providers :
           /\ is_some(where_evals[side]) /\ EvalOfRun(side).ok
           /\ \E a, b \in Operands(side) :
                  /\ a.sign = "Include" /\ b.sign = "Exclude"
                  /\ a.bm # {} /\ b.bm # {}
                  /\ SetOf(a) # Offsets /\ SetOf(b) # {}

----------------------------------------------------------------------------
(* The claims about the collection configuration are stated over the        *)
(* configuration supplied and the result of try_from_config.                *)

Built == internal_configuration # None
Internal == unwrap(internal_configuration)
Supplied == configuration.value

\* C20: try_from_config fails with MultipleVectorIndexConfigurations exactly
\* when both hnsw and spann are supplied; it succeeds when one is supplied,
\* and when none is and the legacy metadata parses; whenever it succeeds, the
\* kind of the vector index built is default_knn_index, whatever kind was
\* supplied.
C20_KindIsDefaultKnnIndex ==
    Built =>
        /\ Internal = Err("MultipleVectorIndexConfigurations")
               <=> (is_some(Supplied.hnsw) /\ is_some(Supplied.spann))
        /\ (is_some(Supplied.hnsw) /\ Supplied.spann = None) => Internal.ok
        /\ (Supplied.hnsw = None /\ is_some(Supplied.spann)) => Internal.ok
        /\ (Supplied.hnsw = None /\ Supplied.spann = None) =>
               Internal.ok <=> from_legacy_segment_metadata(configuration.metadata).ok
        /\ Internal.ok =>
               Internal.val.vector_index.kind = configuration.default_knn_index

\* A configuration that supplies hnsw only was built with Spann for default
\* index.
C20_Witness ==
    /\ Built /\ Internal.ok
    /\ is_some(Supplied.hnsw) /\ Supplied.spann = None
    /\ configuration.default_knn_index = "Spann"
    /\ Internal.val.vector_index.kind = "Spann"

\* Which index configuration was supplied, the hnsw parameters of the legacy
\* metadata, and the index built.
HnswSuppliedOnly == is_some(Supplied.hnsw) /\ Supplied.spann = None
SpannSuppliedOnly == Supplied.hnsw = None /\ is_some(Supplied.spann)
NoneSupplied == Supplied.hnsw = None /\ Supplied.spann = None
Legacy == from_legacy_segment_metadata(configuration.metadata)
BuiltIndex == Internal.val.vector_index

\* Every parameter a configuration sets is the one of the internal
\* configuration.
UsedUnchanged(supplied, internal) ==
    \A field \in DOMAIN supplied :
        is_some(supplied[field]) => internal[field] = unwrap(supplied[field])

\* C21: when the configuration supplied (hnsw, spann, or the hnsw parameters
\* of the legacy metadata) is of the other kind than default_knn_index, the
\* index built is the default of the default kind, but for the space, which is
\* the one supplied when it is set; when the kinds agree, the parameters
\* supplied are the ones of the index built.
C21_OtherKindInheritsSpaceOnly ==
    (Built /\ Internal.ok) =>
        /\ (HnswSuppliedOnly /\ configuration.default_knn_index = "Spann") =>
               BuiltIndex =
                   Spann([InternalSpannConfiguration_default EXCEPT
                            !.space = unwrap_or(unwrap(Supplied.hnsw).space, @)])
        /\ (SpannSuppliedOnly /\ configuration.default_knn_index = "Hnsw") =>
               BuiltIndex =
                   Hnsw([InternalHnswConfiguration_default EXCEPT
                           !.space = unwrap_or(unwrap(Supplied.spann).space, @)])
        /\ (NoneSupplied /\ configuration.default_knn_index = "Spann") =>
               BuiltIndex =
                   Spann([InternalSpannConfiguration_default EXCEPT
                            !.space = Legacy.val.space])
        /\ (HnswSuppliedOnly /\ configuration.default_knn_index = "Hnsw") =>
               /\ BuiltIndex.kind = "Hnsw"
               /\ UsedUnchanged(unwrap(Supplied.hnsw), BuiltIndex.config)
        /\ (SpannSuppliedOnly /\ configuration.default_knn_index = "Spann") =>
               /\ BuiltIndex.kind = "Spann"
               /\ UsedUnchanged(unwrap(Supplied.spann), BuiltIndex.config)
        /\ (NoneSupplied /\ configuration.default_knn_index = "Hnsw") =>
               BuiltIndex = Hnsw(Legacy.val)

\* An hnsw configuration that sets its space and its ef_search was supplied
\* with Spann for default index: the space only is the one supplied.
C21_Witness ==
    /\ Built /\ Internal.ok /\ HnswSuppliedOnly
    /\ configuration.default_knn_index = "Spann"
    /\ unwrap(Supplied.hnsw).space = Some("Cosine")
    /\ is_some(unwrap(Supplied.hnsw).ef_search)
    /\ BuiltIndex.config.space = "Cosine"
    /\ BuiltIndex.config.ef_search = InternalSpannConfiguration_default.ef_search

----------------------------------------------------------------------------
(* The claims about a configuration as stored are stated over the last     *)
(* call of get_hnsw_config_with_legacy_fallback and of update.              *)

FellBack == legacy_fallback # None
Fallback == unwrap(legacy_fallback)
StoredIndex == Fallback.self.vector_index
ParsedFromSegment == from_legacy_segment_metadata(Fallback.segment.metadata)

\* C22: get_hnsw_config_with_legacy_fallback returns None when the index
\* stored is Spann; when it is Hnsw and its configuration is the default, it
\* returns the configuration parsed from the legacy metadata of the segment;
\* when it is Hnsw and its configuration is not the default, it returns the
\* configuration stored, whatever the metadata.
C22_LegacyFallbackOnDefaultOnly ==
    FellBack =>
        /\ StoredIndex.kind = "Spann" => Fallback.result = Ok(None)
        /\ (StoredIndex.kind = "Hnsw"
                /\ StoredIndex.config = InternalHnswConfiguration_default) =>
               IF ParsedFromSegment.ok
               THEN Fallback.result = Ok(Some(ParsedFromSegment.val))
               ELSE ~Fallback.result.ok
        /\ (StoredIndex.kind = "Hnsw"
                /\ StoredIndex.config # InternalHnswConfiguration_default) =>
               Fallback.result = Ok(Some(StoredIndex.config))

Updated == applied_update # None
AppliedUpdate == unwrap(applied_update).configuration
Before == unwrap(applied_update).before
After == unwrap(internal_configuration).val

\* The update supplies parameters of the kind of the index it is applied to.
UpdatesSameKind ==
    /\ is_some(AppliedUpdate.vector_index)
    /\ unwrap(AppliedUpdate.vector_index).kind = Before.vector_index.kind
    /\ is_some(unwrap(AppliedUpdate.vector_index).config)
UpdateConfig == unwrap(unwrap(AppliedUpdate.vector_index).config)

\* C23: update overwrites each index parameter that an update of the kind of
\* the current index sets, and leaves every other parameter, the space
\* included, as it was; an update of the other kind, or with no vector_index,
\* leaves vector_index as it was; embedding_function is replaced when the
\* update supplies one and is left as it was otherwise; the same update
\* applied again changes nothing.
C23_UpdateChangesOnlyWhatIsSupplied ==
    Updated =>
        /\ After.vector_index.kind = Before.vector_index.kind
        /\ UpdatesSameKind =>
               \A field \in DOMAIN Before.vector_index.config :
                   After.vector_index.config[field] =
                       IF field \in DOMAIN UpdateConfig /\ is_some(UpdateConfig[field])
                       THEN unwrap(UpdateConfig[field])
                       ELSE Before.vector_index.config[field]
        /\ ~UpdatesSameKind => After.vector_index = Before.vector_index
        /\ After.embedding_function =
               IF is_some(AppliedUpdate.embedding_function)
               THEN AppliedUpdate.embedding_function
               ELSE Before.embedding_function
        /\ unwrap(applied_update).times > 1 => After = Before

\* An update that sets ef_search and the embedding function was applied twice
\* to an Hnsw index that keeps its ef_construction.
C23_Witness ==
    /\ Updated /\ UpdatesSameKind
    /\ unwrap(applied_update).times = 2
    /\ After.vector_index.kind = "Hnsw"
    /\ UpdateConfig.ef_search = Some(20)
    /\ AppliedUpdate.embedding_function = Some("Known")
    /\ After.vector_index.config.ef_search = 20
    /\ After.vector_index.config.ef_construction = 7
    /\ After.embedding_function = Some("Known")
    /\ After = Before

----------------------------------------------------------------------------
(* The order of the provider calls of an evaluation. *)

RECURSIVE LeafCalls(_)
RECURSIVE ChildrenCalls(_, _)

\* The provider calls of the children of a composite from the i-th on, left to
\* right.
ChildrenCalls(children, i) ==
    IF i > Len(children) THEN <<>>
    ELSE LeafCalls(children[i]) \o ChildrenCalls(children, i + 1)

\* The provider calls a clause asks for, depth first, left to right.
LeafCalls(w) ==
    CASE w.kind = "Metadata" /\ w.comparison.kind = "Primitive" ->
           <<MetadataCall(w.key, w.comparison.value,
                          IF w.comparison.op = "NotEqual" THEN "Equal"
                          ELSE w.comparison.op)>>
      [] w.kind = "Metadata" /\ w.comparison.kind = "Set" ->
           [i \in 1..Len(w.comparison.vec) |->
              MetadataCall(w.key, [t |-> w.comparison.t, v |-> w.comparison.vec[i]],
                           "Equal")]
      [] w.kind = "Document" ->
           <<DocumentCall(IF w.operator \in {"Contains", "NotContains"}
                          THEN "filter_by_document_contains"
                          ELSE "filter_by_document_regex", w.pattern)>>
      [] w.kind = "Composite" -> ChildrenCalls(w.children, 1)

\* The result of a provider call.
CallOn(provider, call) ==
    CASE call.fn = "filter_by_metadata" ->
           filter_by_metadata(provider, call.key, call.val, call.op)
      [] call.fn = "filter_by_document_contains" ->
           filter_by_document_contains(provider, call.query)
      [] call.fn = "filter_by_document_regex" ->
           filter_by_document_regex(provider, call.query)

FailingCalls(provider, calls) ==
    { i \in 1..Len(calls) : ~CallOn(provider, calls[i]).ok }
FirstFailing(provider, calls) ==
    CHOOSE i \in FailingCalls(provider, calls) :
        \A j \in FailingCalls(provider, calls) : i <= j

\* An evaluation made the calls of the clause in order up to the first that
\* fails, and fails with its error.
SequentialUpToFirstFailure(eval, provider, w) ==
    LET calls == LeafCalls(w)
    IN IF FailingCalls(provider, calls) = {}
       THEN eval.ok /\ eval.calls = calls
       ELSE /\ ~eval.ok
            /\ eval.calls = SubSeq(calls, 1, FirstFailing(provider, calls))
            /\ eval.err = CallOn(provider, calls[FirstFailing(provider, calls)]).err

----------------------------------------------------------------------------
(* The regex of the segment provider: what the claims about it are stated  *)
(* over.                                                                    *)

\* The clause is a regex that parses, evaluated on a segment that has a
\* full-text index and a record segment reader.
RegexOnSegment ==
    /\ Done /\ is_some(where_evals.compact)
    /\ Clause.operator \in {"Regex", "NotRegex"}
    /\ regex_parses(Clause.pattern)
    /\ "full_text" \in segment.readers /\ segment.initialized
ExactRegex == look_set_is_empty(Clause.pattern)
Candidates == match_literal_expression(segment.recs, LiteralExpr_from(Clause.pattern))
RecordCount == Cardinality(DOMAIN segment.recs)
\* The result of the provider call of the evaluation on the segment.
RegexResult == CallOn(CompactProviderOfRun, unwrap(where_evals.compact).calls[1])

\* C25: with a predicate that is not exact and a candidate bitmap, point
\* lookups are used exactly when ten times the number of candidates is less
\* than the record count, whatever the record count.
C25_PointLookupsBelowOneTenth ==
    (RegexOnSegment /\ ~ExactRegex /\ is_some(Candidates) /\ ~segment.read_error) =>
        (uses_point_lookups(Candidates, RecordCount)
             <=> Cardinality(unwrap(Candidates)) * PointLookupDivisor < RecordCount)

\* C26: with an exact predicate and a candidate bitmap B from the index, the
\* call returns B, whether or not the record segment can be read: B needs no
\* read of it; when the index cannot filter, the call returns the offset
\* stream of the record segment.
C26_ExactReturnsCandidatesWithoutRead ==
    (RegexOnSegment /\ ExactRegex) =>
        /\ is_some(Candidates) => RegexResult = Ok(unwrap(Candidates))
        /\ (Candidates = None /\ ~segment.read_error) =>
               RegexResult = Ok(DOMAIN segment.recs)
        /\ (Candidates = None /\ segment.read_error) => ~RegexResult.ok

\* The offsets of the record segment that are candidates, when there are
\* candidates, and whose document matches the pattern.
VerifiedMatches ==
    { o \in DOMAIN segment.recs :
        /\ Candidates = None \/ o \in unwrap(Candidates)
        /\ is_some(segment.recs[o].doc)
        /\ regex_is_match(Clause.pattern, unwrap(segment.recs[o].doc)) }

\* C30: with a predicate that is not exact, the point lookups of the
\* candidates and the scan of all records both give the offsets of the record
\* segment that are candidates, when there are candidates, and whose document
\* matches; the call returns them, and they are candidates when there are
\* candidates.
C30_VerificationPathsAgree ==
    (RegexOnSegment /\ ~ExactRegex /\ ~segment.read_error) =>
        LET rec_reader == unwrap(RecordSegmentReader_from_segment(segment))
        IN /\ range_scan_matches(rec_reader, Clause.pattern, Candidates)
                  = Ok(VerifiedMatches)
           /\ is_some(Candidates) =>
                  /\ point_lookup_matches(rec_reader, Clause.pattern, unwrap(Candidates))
                         = Ok(VerifiedMatches)
                  /\ VerifiedMatches \subseteq unwrap(Candidates)
           /\ RegexResult = Ok(VerifiedMatches)
           /\ unwrap(where_evals.compact).val.bm = VerifiedMatches

\* An anchored pattern was verified by point lookups, which kept a candidate.
C30_Witness ==
    /\ RegexOnSegment /\ ~ExactRegex /\ ~segment.read_error
    /\ is_some(Candidates)
    /\ uses_point_lookups(Candidates, RecordCount)
    /\ VerifiedMatches # {}
    /\ RegexResult = Ok(VerifiedMatches)

----------------------------------------------------------------------------
(* The log view of a log whose entries may fail to hydrate. *)

Created == metadata_log_reader_of(logs)
\* The offsets filed under a value of a key in the log view.
ByKey(key, val) ==
    IF /\ key \in DOMAIN Created.val.compact_metadata
       /\ val \in DOMAIN Created.val.compact_metadata[key]
    THEN Created.val.compact_metadata[key][val]
    ELSE {}
LogValues ==
    { kind.meta[key] :
        kind \in { k \in LogKinds \cup LogSegmentKinds : k.meta # NoMeta }, key \in Keys }
DeletedOffsets == { e.offset_id : e \in { x \in LogEntries : x.op = "DeleteExisting" } }

\* C27: after create succeeds, an offset is filed under a value of a key
\* exactly when the entry of the offset is live and its merged metadata maps
\* the key to the value: it is filed under at most one value of a key, and the
\* offset of a deleted entry is filed under no key.
C27_ByKeyIsMergedMetadata ==
    (Done /\ Created.ok) =>
        /\ \A key \in Keys, val \in LogValues, o \in Offsets :
               o \in ByKey(key, val)
                   <=> \E e \in LiveEntries :
                           /\ e.offset_id = o
                           /\ key \in DOMAIN e.meta /\ e.meta[key] = val
        /\ \A key \in DOMAIN Created.val.compact_metadata :
               /\ DOMAIN Created.val.compact_metadata[key] \subseteq LogValues
               /\ \A v1, v2 \in DOMAIN Created.val.compact_metadata[key] :
                      v1 # v2 => ByKey(key, v1) \cap ByKey(key, v2) = {}
               /\ \A val \in DOMAIN Created.val.compact_metadata[key] :
                      ByKey(key, val) \cap DeletedOffsets = {}

\* A log view was created of two live entries that hold the same value, a
\* third entry at most being deleted or holding another value.
C27_Witness ==
    /\ Done /\ Created.ok
    /\ Cardinality(ByKey("k", IntV(1))) = 2
    /\ \A e \in LogEntries : e.op # "Initial"

\* An entry that create hydrates fails to hydrate.
HydrationFails ==
    \E e \in LiveEntries : e.hydration_error

\* C28: when an entry that is not deleted fails to hydrate, create returns the
\* log-materialization error and no log view, and run returns
\* FilterError::LogMaterializer: the metadata segment reader is not opened
\* (its error is not the one returned), no whitelist is resolved and the
\* clause is not evaluated; a deleted entry is not hydrated, and a log whose
\* deleted entries only would fail to hydrate is read as any other.
C28_HydrationFailureIsLogMaterializer ==
    (Done /\ record_segment_reader_of(segment).ok) =>
        /\ HydrationFails =>
               /\ Created = Err("LogMaterializer")
               /\ unwrap(output) = Err("LogMaterializer")
               /\ user_allowed = None
               /\ where_evals = [log |-> None, compact |-> None]
        /\ ~HydrationFails =>
               /\ Created.ok
               /\ Created.val =
                      MetadataLogReader_create(
                          [i \in DOMAIN logs |-> [logs[i] EXCEPT !.hydration_error = FALSE]])
               /\ unwrap(output) # Err("LogMaterializer")

\* A log with a live entry that fails to hydrate, after one that hydrates, was
\* run over a segment whose metadata segment does not open.
C28_Witness ==
    /\ Done /\ HydrationFails
    /\ segment.metadata_error
    /\ \E e \in LiveEntries : ~e.hydration_error
    /\ unwrap(output) = Err("LogMaterializer")

----------------------------------------------------------------------------
(* Concurrent invocations. *)

\* The output of an invocation run alone.
AloneOutput(i) ==
    FilterOperator_run(segment, logs, invocations[i].query_ids,
                       invocations[i].where_clause)

\* C29: however the steps of the invocations over one log and one segment
\* interleave, an invocation returns the output it returns when run alone.
C29_InvocationsDoNotInterfere ==
    \A i \in DOMAIN invocations :
        invocations[i].pc = "done" => invocations[i].output = Some(AloneOutput(i))

\* An invocation with no whitelist returned its output while another, with a
\* whitelist, had resolved it and not yet evaluated its clause.
C29_Witness ==
    /\ Len(invocations) = 2
    /\ invocations[1].pc = "allowed" /\ invocations[2].pc = "done"
    /\ invocations[1].query_ids # invocations[2].query_ids
    /\ unwrap(invocations[1].user_allowed).log # SignedRoaringBitmap_full
    /\ unwrap(invocations[2].output).ok
    /\ unwrap(invocations[2].output).val.log_offset_ids = SignedRoaringBitmap_full

====
